---- MODULE Spec2Model ----
(***************************************************************************)
(* Model of the watchdog's ops plane.                                      *)
(*                                                                         *)
(* Command plane (specification Spec): the CommandProcessor                *)
(* (src/src/commands.ts), the LeaseManager and validateLease               *)
(* (src/unnamed/part_007, lease.ts), the command registry and the inbound  *)
(* MQTT dispatch (src/src/index.ts).                                       *)
(*                                                                         *)
(* Health plane (specification HealthSpec): the condition engine and the   *)
(* mode computation (src/src/health.ts), the edge-triggered event emitter  *)
(* (src/unnamed/part_007, events.ts), the crash detection of the app       *)
(* collector (src/src/collectors/app.ts) and the startup and 2 s loop of   *)
(* main (src/src/index.ts).                                                *)
(*                                                                         *)
(* Broker client (specification BrokerSpec): createClient, connectMqtt     *)
(* and switchBroker (src/unnamed/part_008, mqtt.ts) and the SWITCH_BROKER  *)
(* handler (src/src/index.ts).                                             *)
(*                                                                         *)
(* Signaling bridge (src/src/remote-bridge.ts): the life of the viewer     *)
(* connections and their timers (specification BridgeSpec), the relay of   *)
(* the media engine's ICE candidates (IceSpec) and the relay of the        *)
(* viewers' answers and candidates (AnswerSpec).                           *)
(*                                                                         *)
(* Collectors (specification ProbeSpec): the background probes of          *)
(* src/src/collectors/network.ts, system.ts and app.ts and their caches.   *)
(*                                                                         *)
(* Streaming supervisor (specification StreamSpec): startStreaming,        *)
(* stopStreaming and getStreamingState (src/unnamed/part_010,              *)
(* streaming.ts) and the handlers of the stream commands                   *)
(* (src/src/index.ts).                                                     *)
(*                                                                         *)
(* Time is the value of Date.now(), counted in milliseconds from the       *)
(* start of the process.  One synchronous run of JavaScript (from the      *)
(* entry of a callback to its first await) is one action and reads one     *)
(* clock value.  A handler that is awaited is split in two actions: the    *)
(* call (Handle / HandleLocal) and the settlement of the promise           *)
(* (HandlerResolve / HandlerReject); other callbacks may run in between.   *)
(***************************************************************************)
EXTENDS Integers, Sequences, FiniteSets, TLC

VARIABLES
    now,              \* Date.now()
    nextSweep,        \* due time of the idempotency sweeper's setInterval
    owner,            \* LeaseManager.owner
    expiresTs,        \* LeaseManager.expiresTs
    idempotencyStore, \* commands.ts idempotencyStore: commandId -> entry
    calls,            \* every handle() call so far, in order of entry
    trace,            \* everything handle() emitted: events, acks, handler invocations
    leaseLog,         \* the last line LeaseManager.update logged
    conditionStates,  \* health.ts conditionStates: id -> [rawActive, active, activeSince]
    shuttingDown,     \* health.ts shuttingDown
    exitAt,           \* due time of the process.exit timer of QUIT_WATCHDOG, or Nil
    previousStates,   \* WatchdogEventEmitter.previousStates: id -> active
    reminderTimers,   \* WatchdogEventEmitter.reminderTimers: id -> last reminder
    previousMode,     \* WatchdogEventEmitter.previousMode
    mainPreviousMode, \* main's local previousMode (the mode it last logged)
    nextPublish,      \* earliest time of the next callback of the 2 s loop, or Nil
    health,           \* the last HealthPayload built: [mode, conditions], or Nil
    events,           \* the events the last callback emitted, in order
    cachedVuosRunning,   \* app.ts caches
    cachedServerRunning,
    cachedCrashCount,
    lastKnownPid,
    crashCountDate,
    today,            \* new Date().toDateString()
    last,             \* the last callback that ran and its inputs
    heldSince,        \* id -> time of the first of the evaluations, up to the last
                      \* one without interruption, at which the predicate held, or Nil
    edge,             \* id -> the last of {id}_ON / {id}_OFF emitted: "ON", "OFF" or "none"
    clients,          \* every MqttClient createClient made, in order of creation
    activeClient,     \* mqtt.ts activeClient: an index of clients, 0 for null
    activeBrokerId,   \* mqtt.ts activeBrokerId
    activeMessageHandler, \* mqtt.ts activeMessageHandler
    awaiting,         \* the clients whose createClient promise is pending
    published,        \* the status messages the process published: [client, status]
    lifecycle,        \* the lifecycle events the SWITCH_BROKER handler emitted
    bridge,           \* remote-bridge.ts wallId / mqttClient: "off", "on", "stopping", "stopped"
    viewers,          \* remote-bridge.ts viewers, in the insertion order of the Map
    conns,            \* every ViewerConnection created, in order of creation
    recentJoins,      \* remote-bridge.ts recentJoins: viewerId -> time, or NoNum
    joins,            \* the handleViewerJoin calls that are awaiting
    leaves,           \* the handleViewerLeave calls that are awaiting, each with the
                      \* connection it found
    stopPos,          \* the position of the iterator of cleanupAllViewers, or NoNum
    nJoins,           \* number of handleViewerJoin calls that went past the debounce
    nLeaves,          \* number of handleViewerLeave calls that found a connection
    bridgeLast,       \* the last callback of the bridge and the media-engine calls it made
    joinedAt,         \* viewerId -> time of its last join that was not ignored
    cachedOnline,     \* network.ts caches
    cachedLatencyMs,
    cachedReachable,
    cachedPeers,
    cachedDisk,       \* system.ts caches
    cachedGpu,
    gpuStrategy,
    probed,           \* the collector probed last and whether the probe failed
    legacyLast,       \* the number of messages handleLegacy was given and the
                      \* action of the last one
    subprocesses,     \* every subprocess startStreaming spawned, by pid: "alive",
                      \* "killed" (terminated, its exit not yet delivered) or "exited"
    streamerProcess,  \* streaming.ts streamerProcess: a pid, 0 for null
    currentState,     \* streaming.ts currentState: [status, pid, startedAt, viewerUrl]
    streamCalls,      \* the handlers of the stream commands so far: [kind, pc, proc, due]
    exitWatched       \* the pids whose exited promise has the handler of startStreaming

\* the state of the command plane, without the clock
commandVars == <<nextSweep, owner, expiresTs, idempotencyStore, calls, trace, leaseLog>>

\* the state of the health plane, without the clock
healthVars ==
    <<conditionStates, shuttingDown, exitAt, previousStates, reminderTimers, previousMode,
      mainPreviousMode, nextPublish, health, events, cachedVuosRunning, cachedServerRunning,
      cachedCrashCount, lastKnownPid, crashCountDate, today, last, heldSince, edge>>

\* the state of the broker client (mqtt.ts)
brokerVars ==
    <<clients, activeClient, activeBrokerId, activeMessageHandler, awaiting, published,
      lifecycle>>

\* the state of the signaling bridge (remote-bridge.ts), without the clock
bridgeVars ==
    <<bridge, viewers, conns, recentJoins, joins, leaves, stopPos, nJoins, nLeaves,
      bridgeLast, joinedAt>>

\* the caches of the network and system collectors
probeVars ==
    <<cachedOnline, cachedLatencyMs, cachedReachable, cachedPeers, cachedDisk, cachedGpu,
      gpuStrategy, probed>>

\* what the last callback of the legacy control topic was given
legacyVars == <<legacyLast>>

\* the state of the streaming supervisor (streaming.ts), without the clock
streamVars == <<subprocesses, streamerProcess, currentState, streamCalls, exitWatched>>

\* the state outside the command plane and the health plane
otherVars == <<brokerVars, bridgeVars, probeVars, legacyVars, streamVars>>

vars == <<now, commandVars, healthVars, otherVars>>

----------------------------------------------------------------------------
\* Bounds of the model

\* number of handle() calls in a run
MaxCalls == 2

----------------------------------------------------------------------------
\* Program constants

IDEMPOTENCY_TTL_MS == 60000
SWEEP_INTERVAL_MS == 30000
LOCAL_TTL_MS == 15000

\* null
Nil == "nil"

\* clientId that handleLocal passes to handle
LocalClientId == "local-api"

\* the command registry filled by main(): type -> flags
Registry ==
    [t \in {"START_VUOS", "RESTART_VUOS", "STOP_VUOS", "QUIT_WATCHDOG", "SWITCH_BROKER",
            "REQUEST_TELEMETRY", "REQUEST_CONFIG", "START_STREAM", "STOP_STREAM",
            "SET_STREAM_QUALITY"} |->
        CASE t = "START_VUOS"         -> [requiresLease |-> TRUE,  localBypass |-> TRUE]
          [] t = "RESTART_VUOS"       -> [requiresLease |-> TRUE,  localBypass |-> TRUE]
          [] t = "STOP_VUOS"          -> [requiresLease |-> TRUE,  localBypass |-> FALSE]
          [] t = "QUIT_WATCHDOG"      -> [requiresLease |-> TRUE,  localBypass |-> FALSE]
          [] t = "SWITCH_BROKER"      -> [requiresLease |-> TRUE,  localBypass |-> TRUE]
          [] t = "REQUEST_TELEMETRY"  -> [requiresLease |-> FALSE, localBypass |-> TRUE]
          [] t = "REQUEST_CONFIG"     -> [requiresLease |-> FALSE, localBypass |-> TRUE]
          [] t = "START_STREAM"       -> [requiresLease |-> FALSE, localBypass |-> TRUE]
          [] t = "STOP_STREAM"        -> [requiresLease |-> FALSE, localBypass |-> TRUE]
          [] OTHER                    -> [requiresLease |-> FALSE, localBypass |-> TRUE]]

\* what each registered handler returns when it succeeds
HandlerResult ==
    [t \in DOMAIN Registry |->
        CASE t = "START_VUOS"         -> [message |-> "Vu One OS launched", details |-> "{}"]
          [] t = "RESTART_VUOS"       -> [message |-> "Vu One OS restarted", details |-> "{}"]
          [] t = "STOP_VUOS"          -> [message |-> "Vu One OS stopped", details |-> "{}"]
          [] t = "QUIT_WATCHDOG"      -> [message |-> "Watchdog shutting down", details |-> "{}"]
          [] t = "SWITCH_BROKER"      -> [message |-> "Switched to broker", details |-> "{brokerId}"]
          [] t = "REQUEST_TELEMETRY"  -> [message |-> "Telemetry published", details |-> "{}"]
          [] t = "REQUEST_CONFIG"     -> [message |-> "Config published", details |-> "{}"]
          [] t = "START_STREAM"       -> [message |-> "Streaming started", details |-> "{state,remote}"]
          [] t = "STOP_STREAM"        -> [message |-> "Streaming stopped", details |-> "{state}"]
          [] OTHER                    -> [message |-> "Stream quality updated", details |-> "{state,quality,remote}"]]

----------------------------------------------------------------------------
\* Inputs

\* the instants (values of Date.now()) at which callbacks run
Instants == {0, 1, 30000, 60000, 60001}

\* command envelopes the remote issuers publish
Envelope(id, type, ttlMs) == [commandId |-> id, type |-> type, ts |-> 0, ttlMs |-> ttlMs]

\* the messages published on command/{clientId}
Inbound ==
    { [clientId |-> "ops-42", payload |-> Envelope("abc", "REQUEST_TELEMETRY", 15000)],
      [clientId |-> "ops-42", payload |-> Envelope("r1", "RESTART_VUOS", 30000)],
      [clientId |-> "ops-7",  payload |-> Envelope("r1", "RESTART_VUOS", 30000)],
      [clientId |-> "ops-7",  payload |-> Envelope("x1", "SELF_DESTRUCT", 0)] }

\* command types the HTTP API and the dashboard WebSocket send
LocalTypes == {"RESTART_VUOS", "STOP_VUOS", "SWITCH_BROKER"}

\* owners that publish on the lease topic
Owners == {"ops-42", LocalClientId}

\* lease payloads published on the lease topic
LeasePayloads == [owner : Owners, expiresTs : {30000}]

\* err.message of a failing handler ("" stands for an error without message)
ErrMessages == {"spawn failed"}

----------------------------------------------------------------------------
\* LeaseManager

\* isActive with the expiry instant counted as active
isActiveInclusive(o, e, t) == o # Nil /\ e >= t

isActive(o, e, t) == o # Nil /\ e > t

getOwner(o, e, t) == IF ~isActive(o, e, t) THEN Nil ELSE o

\* update without the check of the current holder
updateAlways(o, e, t, P) ==
    [owner |-> P.owner, expiresTs |-> P.expiresTs, log |-> "Lease granted to " \o P.owner]

\* LeaseManager.update(P) at time t: the (owner, expiresTs) it leaves and the
\* line it logs
update(o, e, t, P) ==
    IF o # Nil /\ o # P.owner /\ e > t
    THEN [owner |-> o, expiresTs |-> e, log |-> "Rejected lease request from " \o P.owner]
    ELSE [owner |-> P.owner, expiresTs |-> P.expiresTs,
          log |-> "Lease granted to " \o P.owner]

\* validateLease without the comparison of the holder with the issuer
validateLeaseAnyOwner(o, e, t, clientId, isLocal, def) ==
    IF ~def.requiresLease THEN [allowed |-> TRUE, reason |-> ""]
    ELSE IF isLocal /\ def.localBypass THEN [allowed |-> TRUE, reason |-> ""]
    ELSE IF ~isActive(o, e, t) THEN [allowed |-> FALSE, reason |-> "No active lease"]
    ELSE [allowed |-> TRUE, reason |-> ""]

validateLease(o, e, t, clientId, isLocal, def) ==
    IF ~def.requiresLease THEN [allowed |-> TRUE, reason |-> ""]
    ELSE IF isLocal /\ def.localBypass THEN [allowed |-> TRUE, reason |-> ""]
    ELSE IF ~isActive(o, e, t) THEN [allowed |-> FALSE, reason |-> "No active lease"]
    ELSE IF getOwner(o, e, t) # clientId
         THEN [allowed |-> FALSE, reason |-> "Lease held by " \o getOwner(o, e, t)]
    ELSE [allowed |-> TRUE, reason |-> ""]

----------------------------------------------------------------------------
\* CommandProcessor

EmptyStore == [x \in {} |-> x]

makeAck(commandId, status, message, details, t) ==
    [commandId |-> commandId, status |-> status, message |-> message,
     details |-> details, ts |-> t]

\* an entry of trace: an event, an ack or a handler invocation of call n
Out(n, kind, name, message, details, t) ==
    [call |-> n, kind |-> kind, name |-> name, message |-> message,
     details |-> details, ts |-> t]

AckOut(n, ack) == Out(n, "ack", ack.status, ack.message, ack.details, ack.ts)

\* the TTL check with the boundary instant counted as expired
ttlInclusive(p, t) == p.ts + p.ttlMs <= t

\* the TTL check with the sign of ttlMs reversed
ttlWrongSign(p, t) == p.ts - p.ttlMs > t

\* step 2 of handle: the TTL check
ttlExceeded(p, t) == p.ts + p.ttlMs < t

\* the checks of handle with the TTL check before the idempotency check
PrecheckTtlFirst(store, o, e, t, p, clientId, isLocal) ==
    IF ttlExceeded(p, t)
    THEN [kind |-> "expired", override |-> FALSE,
          ack |-> makeAck(p.commandId, "EXPIRED", "Command TTL exceeded", "{}", t)]
    ELSE IF p.commandId \in DOMAIN store
    THEN [kind |-> "duplicate", ack |-> store[p.commandId].ack, override |-> FALSE]
    ELSE IF p.type \notin DOMAIN Registry
    THEN [kind |-> "unknown", override |-> FALSE,
          ack |-> makeAck(p.commandId, "REJECTED", "Unknown command: " \o p.type, "{}", t)]
    ELSE LET def == Registry[p.type]
             leaseResult == validateLease(o, e, t, clientId, isLocal, def)
             received == makeAck(p.commandId, "RECEIVED", "Command received", "{}", t)
         IN  IF ~leaseResult.allowed
             THEN IF isLocal /\ def.localBypass
                  THEN [kind |-> "dispatch", override |-> TRUE, ack |-> received]
                  ELSE [kind |-> "denied", override |-> FALSE,
                        ack |-> makeAck(p.commandId, "REJECTED", leaseResult.reason, "{}", t)]
             ELSE [kind |-> "dispatch", override |-> FALSE, ack |-> received]

\* steps 1 to 4 of handle: what the call does before any handler runs
\*   kind "duplicate" | "expired" | "unknown" | "denied" | "dispatch"
\*   ack: the ack sent at this point (the stored one, the denial, or RECEIVED)
\*   override: whether LOCAL_OVERRIDE_USED is emitted
Precheck(store, o, e, t, p, clientId, isLocal) ==
    IF p.commandId \in DOMAIN store
    THEN [kind |-> "duplicate", ack |-> store[p.commandId].ack, override |-> FALSE]
    ELSE IF ttlExceeded(p, t)
    THEN [kind |-> "expired", override |-> FALSE,
          ack |-> makeAck(p.commandId, "EXPIRED", "Command TTL exceeded", "{}", t)]
    ELSE IF p.type \notin DOMAIN Registry
    THEN [kind |-> "unknown", override |-> FALSE,
          ack |-> makeAck(p.commandId, "REJECTED", "Unknown command: " \o p.type, "{}", t)]
    ELSE LET def == Registry[p.type]
             leaseResult == validateLease(o, e, t, clientId, isLocal, def)
             received == makeAck(p.commandId, "RECEIVED", "Command received", "{}", t)
         IN  IF ~leaseResult.allowed
             THEN IF isLocal /\ def.localBypass
                  THEN [kind |-> "dispatch", override |-> TRUE, ack |-> received]
                  ELSE [kind |-> "denied", override |-> FALSE,
                        ack |-> makeAck(p.commandId, "REJECTED", leaseResult.reason, "{}", t)]
             ELSE [kind |-> "dispatch", override |-> FALSE, ack |-> received]

\* handle acknowledging RECEIVED before the lease check, so that a denial
\* follows a RECEIVED
EmittedReceivedFirst(n, p, clientId, isLocal, pre, t) ==
    <<Out(n, "event", "COMMAND_RECEIVED", p.type, clientId, t)>>
    \o (IF pre.kind = "denied"
        THEN <<AckOut(n, makeAck(p.commandId, "RECEIVED", "Command received", "{}", t))>>
        ELSE <<>>)
    \o <<AckOut(n, pre.ack)>>
    \o (IF pre.kind = "dispatch"
        THEN <<Out(n, "invoke", p.type, "", "", t)>>
        ELSE <<>>)

\* what one call of handle appends to trace up to its first await
Emitted(n, p, clientId, isLocal, pre, t) ==
    <<Out(n, "event", "COMMAND_RECEIVED", p.type, clientId, t)>>
    \o (IF pre.override
        THEN <<Out(n, "event", "LOCAL_OVERRIDE_USED", p.type, clientId, t)>>
        ELSE <<>>)
    \o <<AckOut(n, pre.ack)>>
    \o (IF pre.kind = "dispatch"
        THEN <<Out(n, "invoke", p.type, "", "", t)>>
        ELSE <<>>)

\* handle recording its REJECTED and EXPIRED acks in the idempotency store, as it
\* records APPLIED
handleStoringDenials(p, clientId, isLocal) ==
    LET n == Len(calls) + 1
        pre == Precheck(idempotencyStore, owner, expiresTs, now, p, clientId, isLocal)
    IN  /\ Len(calls) < MaxCalls
        /\ trace' = trace \o Emitted(n, p, clientId, isLocal, pre, now)
        /\ calls' = Append(calls,
                [payload |-> p, clientId |-> clientId, isLocal |-> isLocal, at |-> now,
                 cached |-> p.commandId \in DOMAIN idempotencyStore,
                 lease |-> [owner |-> owner, expiresTs |-> expiresTs],
                 state |-> IF pre.kind = "dispatch" THEN "awaiting" ELSE "done"])
        /\ idempotencyStore' =
              IF pre.kind \in {"expired", "unknown", "denied"}
              THEN (p.commandId :> [ack |-> pre.ack, expiresAt |-> now + IDEMPOTENCY_TTL_MS])
                       @@ idempotencyStore
              ELSE idempotencyStore
        /\ UNCHANGED <<now, nextSweep, owner, expiresTs, leaseLog>>
        /\ UNCHANGED <<healthVars, brokerVars, bridgeVars, probeVars, streamVars>>

\* handle(payload, clientId, isLocal) up to the await of the handler
handle(p, clientId, isLocal) ==
    LET n == Len(calls) + 1
        pre == Precheck(idempotencyStore, owner, expiresTs, now, p, clientId, isLocal)
    IN  /\ Len(calls) < MaxCalls
        /\ trace' = trace \o Emitted(n, p, clientId, isLocal, pre, now)
        /\ calls' = Append(calls,
                [payload |-> p, clientId |-> clientId, isLocal |-> isLocal, at |-> now,
                 cached |-> p.commandId \in DOMAIN idempotencyStore,
                 lease |-> [owner |-> owner, expiresTs |-> expiresTs],
                 state |-> IF pre.kind = "dispatch" THEN "awaiting" ELSE "done"])
        /\ UNCHANGED <<now, nextSweep, owner, expiresTs, idempotencyStore, leaseLog>>
        /\ UNCHANGED <<healthVars, brokerVars, bridgeVars, probeVars, streamVars>>

\* the end of handle: the handler's promise settled; the terminal ack is sent
\* and, when cache is TRUE, stored
Settle(n, status, message, details, cache) ==
    LET id == calls[n].payload.commandId
        ack == makeAck(id, status, message, details, now)
    IN  /\ n \in 1..Len(calls)
        /\ calls[n].state = "awaiting"
        /\ idempotencyStore' =
              IF cache
              THEN (id :> [ack |-> ack, expiresAt |-> now + IDEMPOTENCY_TTL_MS]) @@ idempotencyStore
              ELSE idempotencyStore
        /\ trace' = Append(trace, AckOut(n, ack))
        /\ calls' = [calls EXCEPT ![n].state = "done"]
        /\ UNCHANGED <<now, nextSweep, owner, expiresTs, leaseLog>>
        /\ UNCHANGED <<healthVars, otherVars>>

\* try branch: the handler resolved
HandlerResolve(n) ==
    /\ n \in 1..Len(calls)
    /\ LET r == HandlerResult[calls[n].payload.type]
       IN  Settle(n, "APPLIED", r.message, r.details, TRUE)

\* the catch branch storing its FAILED ack like the try branch stores APPLIED
HandlerRejectCached(n, m) ==
    Settle(n, "FAILED", IF m = "" THEN "Execution failed" ELSE m, "{}", TRUE)

\* catch branch: the handler threw an error whose message is m
HandlerReject(n, m) ==
    Settle(n, "FAILED", IF m = "" THEN "Execution failed" ELSE m, "{}", FALSE)

\* the sweeper with its comparison reversed: it evicts the entries still valid
sweepFresh(store, t) ==
    [id \in {i \in DOMAIN store : ~(t <= store[i].expiresAt)} |-> store[id]]

\* the entries left by the sweeper's pass at time t
sweep(store, t) ==
    [id \in {i \in DOMAIN store : ~(t >= store[i].expiresAt)} |-> store[id]]

----------------------------------------------------------------------------
\* Health plane: constants and inputs

\* null of a nullable number
NoNum == -1

PUBLISH_INTERVAL_MS == 2000
STARTUP_WAIT_MS == 3000
WARMUP_SEC == 5
REMINDER_INTERVAL_MS == 600000
HEARTBEAT_STALE_MS == 10000
QUIT_DELAY_MS == 500

\* health.ts startTime: Date.now() when the module is loaded
startTime == 0

\* a percentage in the unit of diskPercent: the collector rounds the disk
\* percentage to one decimal, which the model counts in tenths
Pct(n) == n * 10

\* health.ts CONDITIONS, in the order of the array
CONDITIONS ==
    << [id |-> "VUOS_DOWN",          level |-> "CRITICAL", debounceMs |-> 10000],
       [id |-> "SERVER_DOWN",        level |-> "CRITICAL", debounceMs |-> 10000],
       [id |-> "DISK_FULL",          level |-> "CRITICAL", debounceMs |-> 0],
       [id |-> "THERMAL_THROTTLING", level |-> "CRITICAL", debounceMs |-> 0],
       [id |-> "LOCK_STALE",         level |-> "CRITICAL", debounceMs |-> 0],
       [id |-> "INTERNET_OFFLINE",   level |-> "DEGRADED", debounceMs |-> 30000],
       [id |-> "LATENCY_HIGH",       level |-> "DEGRADED", debounceMs |-> 60000],
       [id |-> "DISK_HIGH",          level |-> "DEGRADED", debounceMs |-> 0],
       [id |-> "GPU_PROBE_FAILED",   level |-> "DEGRADED", debounceMs |-> 60000],
       [id |-> "ERRORS_HIGH",        level |-> "DEGRADED", debounceMs |-> 0] >>

ConditionIds == {CONDITIONS[i].id : i \in 1..Len(CONDITIONS)}

\* the definition of each condition id
Def == [id \in ConditionIds |-> CONDITIONS[CHOOSE i \in 1..Len(CONDITIONS) : CONDITIONS[i].id = id]]

\* events.ts CONDITION_SEVERITY
CONDITION_SEVERITY ==
    [id \in ConditionIds |->
        CASE id \in {"VUOS_DOWN", "SERVER_DOWN", "DISK_FULL", "THERMAL_THROTTLING"} -> "CRITICAL"
          [] id \in {"LOCK_STALE", "GPU_PROBE_FAILED"} -> "ERROR"
          [] OTHER -> "WARN"]

\* x ?? 0
OrZero(x) == IF x = NoNum THEN 0 ELSE x

\* readServerLock: the lock info for a heartbeat of this age (NoNum: no
\* heartbeat in the file, or no readable file)
readServerLock(heartbeatAgeMs) ==
    [heartbeatAgeMs |-> heartbeatAgeMs,
     healthy |-> heartbeatAgeMs # NoNum /\ heartbeatAgeMs < HEARTBEAT_STALE_MS]

\* what the system and network collectors and the lock file hold when all is
\* nominal (diskPercent in tenths of a percent)
Nominal ==
    [diskPercent |-> 829, thermalThrottling |-> FALSE, heartbeatAgeMs |-> 1000,
     internetOnline |-> TRUE, latencyMs |-> 20, gpuName |-> "RTX 4090",
     recentErrorCount |-> 0]

\* the readings the loop's snapshots draw from
Readings ==
    { Nominal,
      [Nominal EXCEPT !.diskPercent = 970],
      [Nominal EXCEPT !.diskPercent = 969],
      [Nominal EXCEPT !.internetOnline = FALSE, !.latencyMs = 251, !.gpuName = Nil],
      [Nominal EXCEPT !.thermalThrottling = TRUE, !.heartbeatAgeMs = 15001,
                      !.recentErrorCount = 5] }

\* the instants (values of Date.now()) at which the callbacks of the health
\* plane run
HealthInstants == {3000, 4999, 5001, 15000, 15001, 35001, 605001}

\* the instants at which QUIT_WATCHDOG is handled
QuitInstants == {15000}

\* the instants of the runs that follow the target app's process
CrashInstants == {3000, 5001, 15001}

\* what getVuosProcessInfo reports: the target app absent, or running with a pid
\* (NoNum: a pid that did not parse)
NoProcess == [running |-> FALSE, pid |-> NoNum]
Observations ==
    {NoProcess} \cup [running : {TRUE}, pid : {1000, 1002, NoNum}]

\* the target app seen up with one pid, or down
SteadyObservations == {NoProcess, [running |-> TRUE, pid |-> 1000]}

\* values of new Date().toDateString(), in calendar order
Dates == <<"Thu Nov 05 2026", "Fri Nov 06 2026">>

\* index.ts snapshot(): the reading joined with the caches of the app collector
snapshot(reading, vuosRunning, serverRunning, crashCount) ==
    [system |-> [diskPercent |-> reading.diskPercent,
                 thermalThrottling |-> reading.thermalThrottling,
                 gpuName |-> reading.gpuName],
     network |-> [internetOnline |-> reading.internetOnline,
                  latencyMs |-> reading.latencyMs],
     app |-> [vuosProcessRunning |-> vuosRunning,
              serverProcessRunning |-> serverRunning,
              crashCountToday |-> crashCount,
              serverLock |-> readServerLock(reading.heartbeatAgeMs),
              logs |-> [recentErrorCount |-> reading.recentErrorCount]]]

----------------------------------------------------------------------------
\* Health engine (health.ts)

\* evaluate with DISK_HIGH as the plan's table has it: diskPercent >= 90
evaluateDiskOverlap(id, t) ==
    CASE id = "VUOS_DOWN"          -> ~t.app.vuosProcessRunning
      [] id = "SERVER_DOWN"        -> ~t.app.serverProcessRunning
      [] id = "DISK_FULL"          -> t.system.diskPercent >= Pct(97)
      [] id = "THERMAL_THROTTLING" -> t.system.thermalThrottling
      [] id = "LOCK_STALE"         -> /\ ~t.app.serverLock.healthy
                                      /\ OrZero(t.app.serverLock.heartbeatAgeMs) > 15000
      [] id = "INTERNET_OFFLINE"   -> ~t.network.internetOnline
      [] id = "LATENCY_HIGH"       -> OrZero(t.network.latencyMs) > 250
      [] id = "DISK_HIGH"          -> t.system.diskPercent >= Pct(90)
      [] id = "GPU_PROBE_FAILED"   -> t.system.gpuName = Nil
      [] id = "ERRORS_HIGH"        -> t.app.logs.recentErrorCount >= 5

\* the evaluate function of condition id on telemetry t
evaluate(id, t) ==
    CASE id = "VUOS_DOWN"          -> ~t.app.vuosProcessRunning
      [] id = "SERVER_DOWN"        -> ~t.app.serverProcessRunning
      [] id = "DISK_FULL"          -> t.system.diskPercent >= Pct(97)
      [] id = "THERMAL_THROTTLING" -> t.system.thermalThrottling
      [] id = "LOCK_STALE"         -> /\ ~t.app.serverLock.healthy
                                      /\ OrZero(t.app.serverLock.heartbeatAgeMs) > 15000
      [] id = "INTERNET_OFFLINE"   -> ~t.network.internetOnline
      [] id = "LATENCY_HIGH"       -> OrZero(t.network.latencyMs) > 250
      [] id = "DISK_HIGH"          -> /\ t.system.diskPercent >= Pct(90)
                                      /\ t.system.diskPercent < Pct(97)
      [] id = "GPU_PROBE_FAILED"   -> t.system.gpuName = Nil
      [] id = "ERRORS_HIGH"        -> t.app.logs.recentErrorCount >= 5

\* the state of every condition when the module is loaded
InitialConditionStates ==
    [id \in ConditionIds |-> [rawActive |-> FALSE, active |-> FALSE, activeSince |-> NoNum]]

\* one condition of evaluateConditions, without the debounce
evaluateOneNoDebounce(def, state, triggered, t) ==
    IF triggered
    THEN [rawActive |-> TRUE, active |-> TRUE,
          activeSince |-> IF ~state.rawActive THEN t ELSE state.activeSince]
    ELSE [rawActive |-> FALSE, active |-> FALSE, activeSince |-> NoNum]

\* one condition of evaluateConditions: the body of its loop at time t
evaluateOne(def, state, triggered, t) ==
    IF triggered
    THEN LET since == IF ~state.rawActive THEN t ELSE state.activeSince
         IN  [rawActive |-> TRUE,
              active |-> IF def.debounceMs = 0 \/ (t - since) >= def.debounceMs
                         THEN TRUE ELSE state.active,
              activeSince |-> since]
    ELSE [rawActive |-> FALSE, active |-> FALSE, activeSince |-> NoNum]

\* evaluateConditions(telemetry) at time t: the new conditionStates
evaluateConditions(states, telemetry, t) ==
    [id \in ConditionIds |-> evaluateOne(Def[id], states[id], evaluate(id, telemetry), t)]

\* computeMode looking at the conditions before the warm-up
computeModeCriticalFirst(sd, states, t) ==
    IF sd THEN "SHUTTING_DOWN"
    ELSE IF \E id \in ConditionIds : states[id].active /\ Def[id].level = "CRITICAL"
         THEN "CRITICAL"
    ELSE IF (t - startTime) < WARMUP_SEC * 1000 THEN "STARTING"
    ELSE IF \E id \in ConditionIds : states[id].active /\ Def[id].level = "DEGRADED"
         THEN "DEGRADED"
    ELSE "READY"

\* computeMode without the skip of the conditions that are not active: a
\* condition counts as soon as its predicate holds
computeModeRaw(sd, states, t) ==
    IF sd THEN "SHUTTING_DOWN"
    ELSE IF (t - startTime) < WARMUP_SEC * 1000 THEN "STARTING"
    ELSE IF \E id \in ConditionIds : states[id].rawActive /\ Def[id].level = "CRITICAL"
         THEN "CRITICAL"
    ELSE IF \E id \in ConditionIds : states[id].rawActive /\ Def[id].level = "DEGRADED"
         THEN "DEGRADED"
    ELSE "READY"

\* computeMode(conditions) at time t, the shutting-down flag being sd;
\* startupAge = (t - startTime) / 1000 < WARMUP_SEC, in milliseconds
computeMode(sd, states, t) ==
    IF sd THEN "SHUTTING_DOWN"
    ELSE IF (t - startTime) < WARMUP_SEC * 1000 THEN "STARTING"
    ELSE IF \E id \in ConditionIds : states[id].active /\ Def[id].level = "CRITICAL"
         THEN "CRITICAL"
    ELSE IF \E id \in ConditionIds : states[id].active /\ Def[id].level = "DEGRADED"
         THEN "DEGRADED"
    ELSE "READY"

\* the ids of CONDITIONS[1..n] that are active, in the order of the array
RECURSIVE ActiveUpTo(_, _)
ActiveUpTo(states, n) ==
    IF n = 0 THEN <<>>
    ELSE ActiveUpTo(states, n - 1)
         \o (IF states[CONDITIONS[n].id].active THEN <<CONDITIONS[n].id>> ELSE <<>>)

\* buildHealth: the mode and conditions.filter(c => c.active).map(c => c.id)
buildHealth(mode, states) ==
    [mode |-> mode, conditions |-> ActiveUpTo(states, Len(CONDITIONS))]

----------------------------------------------------------------------------
\* Event emitter (events.ts)

EmptyMap == [x \in {} |-> x]

\* an emitted event; from and to are the details of MODE_CHANGED
Event(type, severity, from, to) ==
    [type |-> type, severity |-> severity, from |-> from, to |-> to]

\* previousStates.get(id) ?? false
Prev(prevStates, id) == IF id \in DOMAIN prevStates THEN prevStates[id] ELSE FALSE

\* reminderTimers.get(id) ?? 0
LastReminder(timers, id) == IF id \in DOMAIN timers THEN timers[id] ELSE 0

\* edgeOf triggered by the level of active instead of its edge
edgeOfLevel(prev, curr, lastReminder, t) ==
    IF curr THEN "_ON"
    ELSE IF prev /\ ~curr THEN "_OFF"
    ELSE ""

\* edgeOf without the look at the time of the last reminder
edgeOfNoClock(prev, curr, lastReminder, t) ==
    IF ~prev /\ curr THEN "_ON"
    ELSE IF prev /\ ~curr THEN "_OFF"
    ELSE IF prev /\ curr THEN "_REMINDER"
    ELSE ""

\* the suffix of the event updateConditions emits for one condition at time t:
\* "_ON", "_OFF", "_REMINDER" or "" for none
edgeOf(prev, curr, lastReminder, t) ==
    IF ~prev /\ curr THEN "_ON"
    ELSE IF prev /\ ~curr THEN "_OFF"
    ELSE IF prev /\ curr /\ t - lastReminder >= REMINDER_INTERVAL_MS THEN "_REMINDER"
    ELSE ""

\* the events updateConditions emits for CONDITIONS[1..n], in order
RECURSIVE ConditionEvents(_, _, _, _, _)
ConditionEvents(prevStates, timers, states, t, n) ==
    IF n = 0 THEN <<>>
    ELSE LET id == CONDITIONS[n].id
             e == edgeOf(Prev(prevStates, id), states[id].active, LastReminder(timers, id), t)
         IN  ConditionEvents(prevStates, timers, states, t, n - 1)
             \o (IF e = "" THEN <<>>
                 ELSE <<Event(id \o e,
                              IF e = "_OFF" THEN "INFO" ELSE CONDITION_SEVERITY[id], "", "")>>)

\* updateConditions(conditions) at time t: the maps it leaves and the events
\* it emits
updateConditions(prevStates, timers, states, t) ==
    LET e(id) == edgeOf(Prev(prevStates, id), states[id].active, LastReminder(timers, id), t)
        kept == {id \in DOMAIN timers : e(id) # "_OFF"}
        set == {id \in ConditionIds : e(id) \in {"_ON", "_REMINDER"}}
    IN  [previousStates |-> [id \in ConditionIds |-> states[id].active],
         reminderTimers |-> [id \in kept \cup set |-> IF id \in set THEN t ELSE timers[id]],
         events |-> ConditionEvents(prevStates, timers, states, t, Len(CONDITIONS))]

\* updateMode announcing every mode it is given
updateModeAlways(prevMode, mode) ==
    [previousMode |-> mode,
     events |-> <<Event("MODE_CHANGED", "INFO", prevMode, mode)>>]

\* updateMode(mode): the previousMode it leaves and the events it emits
updateMode(prevMode, mode) ==
    [previousMode |-> mode,
     events |-> IF prevMode # Nil /\ prevMode # mode
                THEN <<Event("MODE_CHANGED",
                             IF mode = "CRITICAL" THEN "CRITICAL"
                             ELSE IF mode = "DEGRADED" THEN "WARN" ELSE "INFO",
                             prevMode, mode)>>
                ELSE <<>>]

----------------------------------------------------------------------------
\* Broker client (mqtt.ts): constants and functions

\* number of SWITCH_BROKER handler calls in a run
MaxSwitches == 2

CONNECT_TIMEOUT_MS == 15000

BROKERS == <<[id |-> "emqx", label |-> "Vu Studio (EMQX)"],
             [id |-> "railway", label |-> "Railway"]>>

BrokerIds == {BROKERS[i].id : i \in 1..Len(BROKERS)}

\* the message handler main passes to connectMqtt
OnMessage == "dispatch"

\* the brokerId argument of SWITCH_BROKER: a preset, an unknown id, or none
SwitchArgs == BrokerIds \cup {"backup", Nil}

\* the instants at which the callbacks of the broker client run
BrokerInstants == {0, 15000, 30000}

getBrokerById(id) == IF id \in BrokerIds THEN id ELSE Nil

\* createClient up to the return of mqtt.connect: the client and its 15 s timer
createClient(brokerId, t) ==
    [broker |-> brokerId, state |-> "connecting", subs |-> {}, handler |-> Nil,
     timeoutAt |-> t + CONNECT_TIMEOUT_MS]

\* the "connect" listener of createClient: the timer is cleared
connected(client) == [client EXCEPT !.state = "connected", !.timeoutAt = NoNum]

subscribeTopics(client, onMessage) ==
    [client EXCEPT !.subs = @ \cup {"control", "command/+", "lease"},
                   !.handler = onMessage]

\* client.end(true)
end(client) == [client EXCEPT !.state = "ended", !.timeoutAt = NoNum]

\* activeClient?.connected
activeConnected(cs, active) == active # 0 /\ cs[active].state = "connected"

\* switchBroker up to its await: the clients, the active broker id, the client
\* it created (0 for none) and how it went on
switchBroker(cs, active, activeId, brokerId, t) ==
    IF getBrokerById(brokerId) = Nil
    THEN [clients |-> cs, activeBrokerId |-> activeId, created |-> 0, outcome |-> "throw"]
    ELSE IF brokerId = activeId /\ activeConnected(cs, active)
    THEN [clients |-> cs, activeBrokerId |-> activeId, created |-> 0, outcome |-> "same"]
    ELSE LET old == IF active # 0 THEN [cs EXCEPT ![active] = end(@)] ELSE cs
         IN  [clients |-> Append(old, createClient(brokerId, t)),
              activeBrokerId |-> brokerId,
              created |-> Len(cs) + 1,
              outcome |-> "await"]

\* the event the SWITCH_BROKER handler emits, with the target as both ends
switchedEventAfter(from, to) ==
    [type |-> "BROKER_SWITCHED", severity |-> "WARN",
     details |-> [from |-> to, to |-> to, reason |-> "manual"]]

\* the event the SWITCH_BROKER handler emits
switchedEvent(from, to) ==
    [type |-> "BROKER_SWITCHED", severity |-> "WARN",
     details |-> [from |-> from, to |-> to, reason |-> "manual"]]

----------------------------------------------------------------------------
\* Signaling bridge (remote-bridge.ts): constants and functions

\* number of handleViewerJoin calls that go past the debounce
MaxJoins == 2

\* number of handleViewerLeave calls that find a connection
MaxLeaves == 1

\* number of pollIce fetches of one connection that are pending at a time
MaxPolls == 2

VIEWER_JOIN_DEBOUNCE == 2000

ICE_POLL_CAP_MS == 30000

\* the viewer ids of the messages
Viewers == {"v1", "v2"}

\* the candidate strings the media engine returns
Candidates == {"c1", "c2"}

\* the bodies of the getIceCandidate responses
CandidateLists == {<<"c1">>, <<"c1", "c2", "c2">>}

\* the instants at which the callbacks of the bridge run, the due times of the
\* 30 s timers apart
BridgeInstants == {0, 1999, 2000}

\* handleViewerJoin without the debounce
debouncedNever(lastJoin, t) == FALSE

\* the debounce of handleViewerJoin: lastJoin is recentJoins.get(viewerId)
debounced(lastJoin, t) == lastJoin # NoNum /\ t - lastJoin < VIEWER_JOIN_DEBOUNCE

\* a call of the media engine's HTTP API
Call(api, peer) == [api |-> api, peer |-> peer]

\* the position of viewerId in the Map, 0 for none
indexOf(vs, viewerId) ==
    IF \E i \in 1..Len(vs) : vs[i].id = viewerId
    THEN CHOOSE i \in 1..Len(vs) : vs[i].id = viewerId
    ELSE 0

\* viewers.get(viewerId): the connection, 0 for undefined
viewersGet(vs, viewerId) ==
    IF indexOf(vs, viewerId) = 0 THEN 0 ELSE vs[indexOf(vs, viewerId)].conn

\* viewers.set(viewerId, viewer): a key the Map holds keeps its position
viewersSet(vs, viewerId, c) ==
    IF indexOf(vs, viewerId) = 0
    THEN Append(vs, [id |-> viewerId, conn |-> c])
    ELSE [vs EXCEPT ![indexOf(vs, viewerId)].conn = c]

\* viewers.delete(viewerId)
viewersDelete(vs, viewerId) == SelectSeq(vs, LAMBDA e : e.id # viewerId)

\* the position of a Map iterator after viewers.delete(viewerId)
iteratorAfterDelete(vs, viewerId, pos) ==
    IF pos # NoNum /\ indexOf(vs, viewerId) # 0 /\ indexOf(vs, viewerId) <= pos
    THEN pos - 1
    ELSE pos

\* the ViewerConnection handleViewerJoin builds, its interval and its 30 s
\* timer; out, setAnswer, hangup and pending record what was published for
\* it, the calls made for its peer and its pollIce fetches in flight
ViewerConnection(viewerId, peer, t) ==
    [id |-> viewerId, peerId |-> peer, connectedAt |-> t, polling |-> TRUE,
     capAt |-> t + ICE_POLL_CAP_MS, iceCandidatesSent |-> {}, answerReceived |-> FALSE,
     out |-> <<>>, setAnswer |-> 0, hangup |-> 0, pending |-> 0]

\* mqttClient.publish of a message for the viewer of a connection
publish(conn, msg) == [conn EXCEPT !.out = Append(@, msg)]

\* cleanupViewer up to its await: the interval is cleared and hangup called
cleanupViewer(cs, c) == [cs EXCEPT ![c].polling = FALSE, ![c].hangup = @ + 1]

\* handleViewerJoin from the offer on, without the publication of the offer
registerOfferLate(vs, cs, viewerId, peer, t) ==
    [viewers |-> viewersSet(vs, viewerId, Len(cs) + 1),
     conns |-> Append(cs, ViewerConnection(viewerId, peer, t))]

\* handleViewerJoin from the offer on: the offer is published, the connection
\* built with its timers and put in the table
register(vs, cs, viewerId, peer, t) ==
    [viewers |-> viewersSet(vs, viewerId, Len(cs) + 1),
     conns |-> Append(cs, publish(ViewerConnection(viewerId, peer, t), "offer"))]

\* the loop of pollIce without the look at iceCandidatesSent
RECURSIVE pollIceAll(_, _, _)
pollIceAll(conn, candidates, up) ==
    IF candidates = <<>> THEN conn
    ELSE LET key == Head(candidates)
             added == [conn EXCEPT !.iceCandidatesSent = @ \cup {key}]
         IN  IF up THEN pollIceAll(publish(added, key), Tail(candidates), up)
             ELSE added

\* the loop of pollIce over the candidates of a response; up: mqttClient is
\* not null (publish on null throws, which ends the loop)
RECURSIVE pollIce(_, _, _)
pollIce(conn, candidates, up) ==
    IF candidates = <<>> THEN conn
    ELSE LET key == Head(candidates)
             added == [conn EXCEPT !.iceCandidatesSent = @ \cup {key}]
         IN  IF key \in conn.iceCandidatesSent
             THEN pollIce(conn, Tail(candidates), up)
             ELSE IF up THEN pollIce(publish(added, key), Tail(candidates), up)
             ELSE added

\* handleAnswer without the look at answerReceived
handleAnswerAlways(vs, cs, viewerId) ==
    LET c == viewersGet(vs, viewerId)
    IN  IF c = 0
        THEN [conns |-> cs, calls |-> {}]
        ELSE [conns |-> [cs EXCEPT ![c].answerReceived = TRUE, ![c].setAnswer = @ + 1],
              calls |-> {Call("setAnswer", cs[c].peerId)}]

\* handleAnswer up to its await: the connections and the calls made
handleAnswer(vs, cs, viewerId) ==
    LET c == viewersGet(vs, viewerId)
    IN  IF c = 0 \/ cs[c].answerReceived
        THEN [conns |-> cs, calls |-> {}]
        ELSE [conns |-> [cs EXCEPT ![c].answerReceived = TRUE, ![c].setAnswer = @ + 1],
              calls |-> {Call("setAnswer", cs[c].peerId)}]

\* handleRemoteIce up to its await: the calls made
handleRemoteIce(vs, cs, viewerId) ==
    LET c == viewersGet(vs, viewerId)
    IN  IF c = 0 THEN {} ELSE {Call("addIceCandidate", cs[c].peerId)}

----------------------------------------------------------------------------
\* Collectors (collectors/network.ts, system.ts, app.ts): the probes

\* what the HEAD request of checkInternet came to: it threw (rejection or 5 s
\* timeout), or a response with a status after a latency
InternetProbes ==
    [threw : {TRUE}, status : {0}, latency : {0}] \cup
    [threw : {FALSE}, status : {200, 204, 503}, latency : {20, 300}]

\* what the fetch of /connected-users came to; peers is the length of the
\* array in the body, NoNum for a body that is not an array
LocalServerProbes ==
    [threw : {TRUE}, status : {0}, peers : {NoNum}] \cup
    [threw : {FALSE}, status : {200, 500}, peers : {NoNum, 0, 2}]

\* what the PowerShell query of refreshDisk came to
DiskProbes ==
    [threw : {TRUE}, totalMB : {0}, usedMB : {0}] \cup
    [threw : {FALSE}, totalMB : {1000}, usedMB : {829, 970}] \cup
    [threw : {FALSE}, totalMB : {0}, usedMB : {0}]

\* what nvidia-smi and the WMI script came to; ok is false for a throw, a
\* non-zero exit code or an empty output
GpuResults ==
    [ok : {FALSE}, name : {Nil}, temp : {NoNum}] \cup
    [ok : {TRUE}, name : {"RTX 4090"}, temp : {60, 95}]

GpuProbes == [nvidia : GpuResults, wmi : GpuResults]

\* what the PowerShell query of getVuosProcessInfo came to
ProcessProbes ==
    [threw : {TRUE}, result : {NoProcess}] \cup [threw : {FALSE}, result : Observations]

\* res.ok
resOk(status) == status >= 200 /\ status <= 299

checkInternet(p) ==
    IF p.threw
    THEN [cachedOnline |-> FALSE, cachedLatencyMs |-> NoNum]
    ELSE [cachedOnline |-> resOk(p.status) \/ p.status = 204, cachedLatencyMs |-> p.latency]

checkLocalServer(p) ==
    IF p.threw \/ ~resOk(p.status)
    THEN [cachedReachable |-> FALSE, cachedPeers |-> 0]
    ELSE [cachedReachable |-> TRUE,
          cachedPeers |-> IF p.peers = NoNum THEN 0 ELSE p.peers]

\* Math.round of a non-negative quotient
roundDiv(a, b) == (2 * a + b) \div (2 * b)

\* refreshDisk: the percentage is kept to one decimal, here in tenths
refreshDisk(cache, p) ==
    IF p.threw
    THEN cache
    ELSE [totalMB |-> p.totalMB, usedMB |-> p.usedMB,
          percent |-> IF p.totalMB = 0 THEN 0 ELSE roundDiv(p.usedMB * 1000, p.totalMB)]

\* refreshGpuNvidia and refreshGpuWmi: the cache and the value returned
refreshGpuWith(cache, r) ==
    IF r.ok THEN [cachedGpu |-> [name |-> r.name, temp |-> r.temp], ok |-> TRUE]
    ELSE [cachedGpu |-> cache, ok |-> FALSE]

\* refreshGpu: the cache, the strategy and whether a probe succeeded
refreshGpu(cache, strategy, p) ==
    LET nvidia == refreshGpuWith(cache, p.nvidia)
        wmi == refreshGpuWith(cache, p.wmi)
    IN  IF strategy = "nvidia"
        THEN [cachedGpu |-> nvidia.cachedGpu, gpuStrategy |-> strategy, ok |-> nvidia.ok]
        ELSE IF strategy = "wmi"
        THEN [cachedGpu |-> wmi.cachedGpu, gpuStrategy |-> strategy, ok |-> wmi.ok]
        ELSE IF nvidia.ok
        THEN [cachedGpu |-> nvidia.cachedGpu, gpuStrategy |-> "nvidia", ok |-> TRUE]
        ELSE IF wmi.ok
        THEN [cachedGpu |-> wmi.cachedGpu, gpuStrategy |-> "wmi", ok |-> TRUE]
        ELSE [cachedGpu |-> cache, gpuStrategy |-> strategy, ok |-> FALSE]

\* getVuosProcessInfo: the catch branch reports the app as not running
getVuosProcessInfo(p) == IF p.threw THEN NoProcess ELSE p.result

\* collectNetwork
collectNetwork(online, latencyMs, reachable, peers) ==
    [internetOnline |-> online, latencyMs |-> latencyMs,
     localServerReachable |-> reachable, connectedPeers |-> peers]

----------------------------------------------------------------------------
\* Streaming supervisor (streaming.ts): constants and functions

\* number of stream command handlers in a run
MaxStreamCalls == 2

PORT_RELEASE_MS == 1000

ZOMBIE_KILL_MS == 1500

WAIT_FOR_PORT_MS == 10000

\* the instants at which commands arrive and the media engine answers or exits,
\* the due times of the timers apart
StreamInstants == {0, 500, 3000}

\* the currentState of the module and the one stopStreaming assigns (the port
\* is left out)
Stopped ==
    [status |-> "stopped", pid |-> NoNum, startedAt |-> NoNum, viewerUrl |-> Nil,
     error |-> Nil]

\* the currentState startStreaming assigns before it spawns
Starting ==
    [status |-> "starting", pid |-> NoNum, startedAt |-> NoNum, viewerUrl |-> Nil,
     error |-> Nil]

\* subprocess.kill(): the subprocess is terminated; its exit is delivered later
kill(procs, p) == IF procs[p] = "alive" THEN [procs EXCEPT ![p] = "killed"] ELSE procs

\* taskkill /F /IM webrtc-streamer.exe: every process of that image
taskkill(procs) ==
    [p \in 1..Len(procs) |-> IF procs[p] = "alive" THEN "killed" ELSE procs[p]]

\* the transient fields cleared, as the exit handler and getStreamingState do
cleared(state) ==
    [state EXCEPT !.status = "stopped", !.pid = NoNum, !.startedAt = NoNum,
                  !.viewerUrl = Nil]

\* getStreamingState(): the state it leaves and the process handle
getStreamingState(procs, sp, state) ==
    IF state.status = "running" /\ sp # 0 /\ procs[sp] = "exited"
    THEN [currentState |-> cleared(state), streamerProcess |-> 0]
    ELSE [currentState |-> state, streamerProcess |-> sp]

\* the handler startStreaming puts on streamerProcess.exited
onExited(state) == IF state.status = "running" THEN cleared(state) ELSE state

\* stopStreaming up to its await: awaits is the subprocess whose exit it awaits,
\* 0 when it has returned (an exit already delivered lets it run to its end)
stopStreaming(procs, sp, state) ==
    IF sp = 0
    THEN [subprocesses |-> procs, streamerProcess |-> 0,
          currentState |-> [state EXCEPT !.status = "stopped"], awaits |-> 0]
    ELSE IF procs[sp] = "exited"
    THEN [subprocesses |-> procs, streamerProcess |-> 0, currentState |-> Stopped,
          awaits |-> 0]
    ELSE [subprocesses |-> kill(procs, sp), streamerProcess |-> sp, currentState |-> state,
          awaits |-> sp]

\* startStreaming up to its first await: where the call waits (pc), for which
\* subprocess (proc) or until when (due)
\*   "stopping": the exit awaited by stopStreaming
\*   "release":  the 1 s wait after the stop
\*   "zombies":  the 1.5 s wait after taskkill
startStreaming(procs, sp, state, t) ==
    IF state.status = "running" \/ state.status = "starting" \/ sp # 0
    THEN LET s == stopStreaming(procs, sp, state)
         IN  [subprocesses |-> s.subprocesses, streamerProcess |-> s.streamerProcess,
              currentState |-> s.currentState,
              pc |-> IF s.awaits # 0 THEN "stopping" ELSE "release",
              proc |-> s.awaits,
              due |-> IF s.awaits # 0 THEN NoNum ELSE t + PORT_RELEASE_MS]
    ELSE [subprocesses |-> taskkill(procs), streamerProcess |-> sp, currentState |-> state,
          pc |-> "zombies", proc |-> 0, due |-> t + ZOMBIE_KILL_MS]

\* startStreaming from the return of the port scans to the await of
\* waitForPort: the subprocess is spawned
spawn(procs, t) ==
    [subprocesses |-> Append(procs, "alive"),
     streamerProcess |-> Len(procs) + 1,
     currentState |-> [Starting EXCEPT !.pid = Len(procs) + 1],
     pc |-> "waitForPort", proc |-> 0, due |-> t + WAIT_FOR_PORT_MS]

\* startStreaming from the return of waitForPort: sets running, then puts the
\* exit handler on streamerProcess, which throws if that is null; a handler put
\* on a subprocess whose exit was delivered runs at once
started(procs, sp, state, watched, t) ==
    LET running == [state EXCEPT !.status = "running", !.startedAt = t, !.viewerUrl = "url"]
    IN  IF sp = 0
        THEN [currentState |-> [running EXCEPT !.status = "error", !.error = "TypeError"],
              streamerProcess |-> 0, exitWatched |-> watched, pc |-> "failed"]
        ELSE IF procs[sp] = "exited"
        THEN [currentState |-> onExited(running), streamerProcess |-> 0,
              exitWatched |-> watched, pc |-> "done"]
        ELSE [currentState |-> running, streamerProcess |-> sp,
              exitWatched |-> watched \cup {sp}, pc |-> "done"]

----------------------------------------------------------------------------
\* Legacy control messages (commands.ts handleLegacy)

\* number of messages on the control topic
MaxLegacy == 2

LEGACY_TTL_MS == 15000

LEGACY_ACTION_MAP ==
    [a \in {"restart-vuos", "start-vuos", "stop-vuos", "quit", "switch-broker",
            "start-stream", "stop-stream", "set-stream-quality"} |->
        CASE a = "restart-vuos"  -> "RESTART_VUOS"
          [] a = "start-vuos"    -> "START_VUOS"
          [] a = "stop-vuos"     -> "STOP_VUOS"
          [] a = "quit"          -> "QUIT_WATCHDOG"
          [] a = "switch-broker" -> "SWITCH_BROKER"
          [] a = "start-stream"  -> "START_STREAM"
          [] a = "stop-stream"   -> "STOP_STREAM"
          [] OTHER               -> "SET_STREAM_QUALITY"]

\* property names every object literal inherits from Object.prototype
ObjectPrototypeKeys == {"constructor", "toString"}

\* what `${value}` gives for the inherited member of that name
Inherited(name) == "Object.prototype." \o name

\* LEGACY_ACTION_MAP[action]: a property read of an object literal, which
\* also finds the inherited members; Nil for undefined
legacyLookup(action) ==
    IF action \in DOMAIN LEGACY_ACTION_MAP THEN LEGACY_ACTION_MAP[action]
    ELSE IF action \in ObjectPrototypeKeys THEN Inherited(action)
    ELSE Nil

\* the action field of the messages on the control topic; Nil: no action
LegacyActions == {"restart-vuos", "start-stream", "reboot", "constructor", Nil}

\* the ${Date.now()}-${Math.random()...} part of the commandId of the n-th
\* handle call; the random suffix is taken not to repeat
legacyId(t, n) == "legacy-" \o ToString(t) \o "-" \o ToString(n)

----------------------------------------------------------------------------
\* Actions

\* an MQTT message on command/{clientId}
Handle ==
    \E m \in Inbound : handle(m.payload, m.clientId, FALSE) /\ UNCHANGED legacyVars

\* handleLocal(type): a command of the HTTP API or the dashboard WebSocket
HandleLocal ==
    \E type \in LocalTypes :
        handle([commandId |-> "local-" \o ToString(Len(calls) + 1), type |-> type,
                ts |-> now, ttlMs |-> LOCAL_TTL_MS],
               LocalClientId, TRUE)
        /\ UNCHANGED legacyVars

Resolve == \E n \in 1..Len(calls) : HandlerResolve(n)

Reject == \E n \in 1..Len(calls), m \in ErrMessages : HandlerReject(n, m)

\* an MQTT message on the lease topic
LeaseUpdate ==
    \E P \in LeasePayloads :
        LET l == update(owner, expiresTs, now, P)
        IN  /\ owner' = l.owner
            /\ expiresTs' = l.expiresTs
            /\ leaseLog' = l.log
            /\ UNCHANGED <<now, nextSweep, idempotencyStore, calls, trace>>
            /\ UNCHANGED <<healthVars, otherVars>>

\* the setInterval callback that evicts old idempotency entries
Sweep ==
    /\ now = nextSweep
    /\ idempotencyStore' = sweep(idempotencyStore, now)
    /\ nextSweep' = now + SWEEP_INTERVAL_MS
    /\ UNCHANGED <<now, owner, expiresTs, calls, trace, leaseLog>>
    /\ UNCHANGED <<healthVars, otherVars>>

\* the clock advances to the next instant; a timer that is due runs first
Tick ==
    /\ \E t \in Instants :
          /\ t > now
          /\ t <= nextSweep
          /\ \A u \in Instants : ~(now < u /\ u < t)
          /\ now' = t
    /\ UNCHANGED <<nextSweep, owner, expiresTs, idempotencyStore, calls, trace, leaseLog>>
    /\ UNCHANGED <<healthVars, otherVars>>

Init ==
    /\ now = 0
    /\ nextSweep = SWEEP_INTERVAL_MS
    /\ owner = Nil
    /\ expiresTs = 0
    /\ idempotencyStore = EmptyStore
    /\ calls = <<>>
    /\ trace = <<>>
    /\ leaseLog = ""
    /\ conditionStates = InitialConditionStates
    /\ shuttingDown = FALSE
    /\ exitAt = NoNum
    /\ previousStates = EmptyMap
    /\ reminderTimers = EmptyMap
    /\ previousMode = Nil
    /\ mainPreviousMode = Nil
    /\ nextPublish = NoNum
    /\ health = [mode |-> Nil, conditions |-> <<>>]
    /\ events = <<Event("WATCHDOG_STARTED", "INFO", "", "")>>
    /\ cachedVuosRunning = FALSE
    /\ cachedServerRunning = FALSE
    /\ cachedCrashCount = 0
    /\ lastKnownPid = NoNum
    /\ crashCountDate = Dates[1]
    /\ today = Dates[1]
    /\ last = [op |-> "main", reading |-> Nominal, obs |-> NoProcess]
    /\ heldSince = [id \in ConditionIds |-> NoNum]
    /\ edge = [id \in ConditionIds |-> "none"]
    /\ clients = <<>>
    /\ activeClient = 0
    /\ activeBrokerId = BROKERS[1].id
    /\ activeMessageHandler = Nil
    /\ awaiting = {}
    /\ published = {}
    /\ lifecycle = <<>>
    /\ bridge = "off"
    /\ viewers = <<>>
    /\ conns = <<>>
    /\ recentJoins = [v \in Viewers |-> NoNum]
    /\ joins = {}
    /\ leaves = {}
    /\ stopPos = NoNum
    /\ nJoins = 0
    /\ nLeaves = 0
    /\ bridgeLast = [op |-> "load", viewer |-> Nil, calls |-> {}]
    /\ joinedAt = [v \in Viewers |-> NoNum]
    /\ cachedOnline = FALSE
    /\ cachedLatencyMs = NoNum
    /\ cachedReachable = FALSE
    /\ cachedPeers = 0
    /\ cachedDisk = [totalMB |-> 0, usedMB |-> 0, percent |-> 0]
    /\ cachedGpu = [name |-> Nil, temp |-> NoNum]
    /\ gpuStrategy = Nil
    /\ probed = [collector |-> Nil, failed |-> FALSE]
    /\ legacyLast = [n |-> 0, action |-> Nil]
    /\ subprocesses = <<>>
    /\ streamerProcess = 0
    /\ currentState = Stopped
    /\ streamCalls = <<>>
    /\ exitWatched = {}

Next ==
    \/ Handle
    \/ HandleLocal
    \/ Resolve
    \/ Reject
    \/ LeaseUpdate
    \/ Sweep
    \/ Tick

Spec == Init /\ [][Next]_vars

----------------------------------------------------------------------------
\* Command plane: the idempotency entries beyond their expiry

\* the instants at which the callbacks run when the age of the entries is
\* followed past IDEMPOTENCY_TTL_MS
StaleInstants == {0, 1, 30000, 60000, 75000}

\* the clock advances to the next of these instants; a timer that is due runs
\* first
TickIn(Times) ==
    /\ \E t \in Times :
          /\ t > now
          /\ t <= nextSweep
          /\ \A u \in Times : ~(now < u /\ u < t)
          /\ now' = t
    /\ UNCHANGED <<nextSweep, owner, expiresTs, idempotencyStore, calls, trace, leaseLog>>
    /\ UNCHANGED <<healthVars, otherVars>>

StaleNext ==
    \/ Handle
    \/ Resolve
    \/ Reject
    \/ Sweep
    \/ TickIn(StaleInstants)

StaleSpec == Init /\ [][StaleNext]_vars

----------------------------------------------------------------------------
\* Legacy control topic (commands.ts handleLegacy)

\* handleLegacy(payload) up to the await of the handler
handleLegacy(action) ==
    LET commandType == legacyLookup(action)
    IN  IF action = Nil \/ commandType = Nil
        THEN UNCHANGED <<now, commandVars, healthVars, brokerVars, bridgeVars, probeVars,
                         streamVars>>
        ELSE handle([commandId |-> legacyId(now, Len(calls) + 1), type |-> commandType,
                     ts |-> now, ttlMs |-> LEGACY_TTL_MS],
                    "legacy", FALSE)

\* an MQTT message on the control topic
HandleLegacy ==
    \E action \in LegacyActions :
        /\ legacyLast.n < MaxLegacy
        /\ handleLegacy(action)
        /\ legacyLast' = [n |-> legacyLast.n + 1, action |-> action]

LegacyNext ==
    \/ HandleLegacy
    \/ Resolve
    \/ Reject
    \/ LeaseUpdate
    \/ Sweep
    \/ Tick

LegacySpec == Init /\ [][LegacyNext]_vars

----------------------------------------------------------------------------
\* Health plane: app collector (collectors/app.ts)

\* bound on cachedCrashCount
MaxCrashes == 2

\* refreshProcesses counting every observation of a running process
refreshCountAll(count, known, date, day, info) ==
    LET c == IF day # date THEN 0 ELSE count
    IN  IF info.running /\ info.pid # NoNum
        THEN [cachedCrashCount |-> IF known # NoNum THEN c + 1 ELSE c,
              lastKnownPid |-> info.pid, crashCountDate |-> day,
              crashed |-> known # NoNum]
        ELSE [cachedCrashCount |-> c, lastKnownPid |-> known, crashCountDate |-> day,
              crashed |-> FALSE]

\* refreshProcesses after getVuosProcessInfo returned info, the date being day:
\* the crash counter, the remembered pid and date it leaves, and whether it
\* logged a crash
refreshCrash(count, known, date, day, info) ==
    LET c == IF day # date THEN 0 ELSE count
    IN  IF info.running /\ info.pid # NoNum
        THEN [cachedCrashCount |-> IF known # NoNum /\ info.pid # known THEN c + 1 ELSE c,
              lastKnownPid |-> info.pid, crashCountDate |-> day,
              crashed |-> known # NoNum /\ info.pid # known]
        ELSE [cachedCrashCount |-> c, lastKnownPid |-> known, crashCountDate |-> day,
              crashed |-> FALSE]

\* a callback can run at time t: the process has not exited
Alive(t) == exitAt = NoNum \/ t < exitAt

\* refreshProcesses, from the return of getVuosProcessInfo to the next await
refreshProcesses(info) ==
    LET r == refreshCrash(cachedCrashCount, lastKnownPid, crashCountDate, today, info)
    IN  /\ Alive(now)
        /\ r.cachedCrashCount <= MaxCrashes
        /\ cachedVuosRunning' = info.running
        /\ cachedCrashCount' = r.cachedCrashCount
        /\ lastKnownPid' = r.lastKnownPid
        /\ crashCountDate' = r.crashCountDate
        /\ events' = <<>>
        /\ last' = [op |-> "refreshProcesses", reading |-> last.reading, obs |-> info]
        /\ UNCHANGED <<now, commandVars, brokerVars, bridgeVars, legacyVars, streamVars,
                       conditionStates,
                       shuttingDown, exitAt, previousStates, reminderTimers, previousMode,
                       mainPreviousMode, nextPublish, health, cachedServerRunning, today,
                       heldSince, edge>>

\* refreshProcesses with what getVuosProcessInfo returned
RefreshVuos(Infos) == \E info \in Infos : refreshProcesses(info) /\ UNCHANGED probeVars

\* refreshProcesses, from the return of isProcessRunning("Vu_OS_Server*")
RefreshServer(Values) ==
    \E running \in Values :
        /\ Alive(now)
        /\ cachedServerRunning' = running
        /\ events' = <<>>
        /\ last' = [op |-> "refreshServer", reading |-> last.reading, obs |-> NoProcess]
        /\ UNCHANGED <<now, commandVars, otherVars, conditionStates, shuttingDown, exitAt,
                       previousStates, reminderTimers, previousMode, mainPreviousMode,
                       nextPublish, health, cachedVuosRunning, cachedCrashCount, lastKnownPid,
                       crashCountDate, today, heldSince, edge>>

\* the local calendar date changes
Midnight ==
    /\ today = Dates[1]
    /\ today' = Dates[2]
    /\ events' = <<>>
    /\ last' = [op |-> "midnight", reading |-> last.reading, obs |-> NoProcess]
    /\ UNCHANGED <<now, commandVars, otherVars, conditionStates, shuttingDown, exitAt,
                   previousStates, reminderTimers, previousMode, mainPreviousMode,
                   nextPublish, health, cachedVuosRunning, cachedServerRunning,
                   cachedCrashCount, lastKnownPid, crashCountDate, heldSince, edge>>

----------------------------------------------------------------------------
\* Health plane: main (index.ts)

\* the history of the predicates after an evaluation of telemetry at time t
Held(telemetry, t) ==
    [id \in ConditionIds |->
        IF evaluate(id, telemetry)
        THEN (IF heldSince[id] # NoNum THEN heldSince[id] ELSE t)
        ELSE NoNum]

\* the last edge emitted for each condition after these events
Edges(evs) ==
    [id \in ConditionIds |->
        LET ons == {i \in 1..Len(evs) : evs[i].type = id \o "_ON"}
            offs == {i \in 1..Len(evs) : evs[i].type = id \o "_OFF"}
        IN  IF ons = {} /\ offs = {} THEN edge[id]
            ELSE IF offs = {} THEN "ON"
            ELSE IF ons = {} THEN "OFF"
            ELSE "BOTH"]

\* main from the return of connectMqtt to the start of the 2 s loop: the
\* initial snapshot is evaluated and its mode kept for the log
StartLoop(Times, Inputs) ==
    \E t \in Times, reading \in Inputs :
        LET data == snapshot(reading, cachedVuosRunning, cachedServerRunning, cachedCrashCount)
            conditions == evaluateConditions(conditionStates, data, t)
        IN  /\ nextPublish = NoNum
            /\ t >= now
            /\ t >= startTime + STARTUP_WAIT_MS
            /\ now' = t
            /\ conditionStates' = conditions
            /\ mainPreviousMode' = computeMode(shuttingDown, conditions, t)
            /\ nextPublish' = t + PUBLISH_INTERVAL_MS
            /\ events' = <<Event("BROKER_CONNECTED", "INFO", "", "")>>
            /\ heldSince' = Held(data, t)
            /\ last' = [op |-> "start", reading |-> reading, obs |-> NoProcess]
            /\ UNCHANGED <<commandVars, otherVars, shuttingDown, exitAt, previousStates,
                           reminderTimers,
                           previousMode, health, cachedVuosRunning, cachedServerRunning,
                           cachedCrashCount, lastKnownPid, crashCountDate, today, edge>>

\* one callback of the 2 s loop
MainLoop(Times, Inputs) ==
    \E t \in Times, reading \in Inputs :
        LET telemetry == snapshot(reading, cachedVuosRunning, cachedServerRunning,
                                  cachedCrashCount)
            conditions == evaluateConditions(conditionStates, telemetry, t)
            mode == computeMode(shuttingDown, conditions, t)
            uc == updateConditions(previousStates, reminderTimers, conditions, t)
            um == updateMode(previousMode, mode)
        IN  /\ nextPublish # NoNum
            /\ t >= nextPublish
            /\ t >= now
            /\ Alive(t)
            /\ now' = t
            /\ conditionStates' = conditions
            /\ previousStates' = uc.previousStates
            /\ reminderTimers' = uc.reminderTimers
            /\ previousMode' = um.previousMode
            /\ events' = uc.events \o um.events
            /\ health' = buildHealth(mode, conditions)
            /\ mainPreviousMode' = mode
            /\ nextPublish' = t + PUBLISH_INTERVAL_MS
            /\ heldSince' = Held(telemetry, t)
            /\ edge' = Edges(uc.events)
            /\ last' = [op |-> "loop", reading |-> reading, obs |-> NoProcess]
            /\ UNCHANGED <<commandVars, otherVars, shuttingDown, exitAt, cachedVuosRunning,
                           cachedServerRunning, cachedCrashCount, lastKnownPid,
                           crashCountDate, today>>

\* the handler of QUIT_WATCHDOG: it sets the flag and exits 500 ms later
Quit(Times) ==
    \E t \in Times :
        /\ nextPublish # NoNum
        /\ ~shuttingDown
        /\ t >= now
        /\ now' = t
        /\ shuttingDown' = TRUE
        /\ exitAt' = t + QUIT_DELAY_MS
        /\ events' = <<Event("WATCHDOG_SHUTTING_DOWN", "INFO", "", "")>>
        /\ last' = [op |-> "quit", reading |-> last.reading, obs |-> NoProcess]
        /\ UNCHANGED <<commandVars, otherVars, conditionStates, previousStates, reminderTimers,
                       previousMode, mainPreviousMode, nextPublish, health,
                       cachedVuosRunning, cachedServerRunning, cachedCrashCount,
                       lastKnownPid, crashCountDate, today, heldSince, edge>>

\* the health engine and the event emitter under varying readings
HealthNext ==
    \/ StartLoop(HealthInstants, Readings)
    \/ MainLoop(HealthInstants, Readings)
    \/ RefreshVuos(SteadyObservations)
    \/ RefreshServer({TRUE})
    \/ Quit(QuitInstants)

HealthSpec == Init /\ [][HealthNext]_vars

\* the crash detection under varying observations of the target app, the
\* readings being nominal
CrashNext ==
    \/ StartLoop(CrashInstants, {Nominal})
    \/ MainLoop(CrashInstants, {Nominal})
    \/ RefreshVuos(Observations)
    \/ RefreshServer(BOOLEAN)
    \/ Midnight

CrashSpec == Init /\ [][CrashNext]_vars

----------------------------------------------------------------------------
\* Broker client (mqtt.ts) and the SWITCH_BROKER handler (index.ts)

\* connectMqtt up to its await; main calls it once
ConnectMqtt ==
    /\ Len(clients) = 0
    /\ activeMessageHandler' = OnMessage
    /\ activeBrokerId' = BROKERS[1].id
    /\ clients' = <<createClient(BROKERS[1].id, now)>>
    /\ awaiting' = {1}
    /\ UNCHANGED <<now, activeClient, published, lifecycle>>
    /\ UNCHANGED <<commandVars, healthVars, bridgeVars, probeVars, legacyVars, streamVars>>

\* the "connect" listener of a client: the online status is published and, if
\* createClient is still awaited, connectMqtt or switchBroker goes on
ClientConnect ==
    \E c \in 1..Len(clients) :
        /\ clients[c].state = "connecting"
        /\ published' = published \cup
               {[client |-> c, broker |-> clients[c].broker, status |-> "online"]}
        /\ IF c \in awaiting
           THEN /\ activeClient' = c
                /\ clients' = [clients EXCEPT
                                  ![c] = subscribeTopics(connected(@), activeMessageHandler)]
                /\ awaiting' = awaiting \ {c}
           ELSE /\ clients' = [clients EXCEPT ![c] = connected(@)]
                /\ UNCHANGED <<activeClient, awaiting>>
        /\ UNCHANGED <<now, activeBrokerId, activeMessageHandler, lifecycle>>
        /\ UNCHANGED <<commandVars, healthVars, bridgeVars, probeVars, legacyVars, streamVars>>

\* the "error" listener of a client whose createClient switchBroker awaits:
\* switchBroker throws; the client is left to its reconnect period.  (A
\* rejection of the createClient of connectMqtt ends the process.)
ClientError ==
    \E c \in awaiting :
        /\ activeClient # 0
        /\ clients' = [clients EXCEPT ![c].timeoutAt = NoNum]
        /\ awaiting' = awaiting \ {c}
        /\ UNCHANGED <<now, activeClient, activeBrokerId, activeMessageHandler, published,
                       lifecycle>>
        /\ UNCHANGED <<commandVars, healthVars, bridgeVars, probeVars, legacyVars, streamVars>>

\* the 15 s timer of createClient: the same rejection
ConnectTimeout ==
    \E c \in 1..Len(clients) :
        /\ activeClient # 0
        /\ clients[c].timeoutAt # NoNum
        /\ now >= clients[c].timeoutAt
        /\ clients' = [clients EXCEPT ![c].timeoutAt = NoNum]
        /\ awaiting' = awaiting \ {c}
        /\ UNCHANGED <<now, activeClient, activeBrokerId, activeMessageHandler, published,
                       lifecycle>>
        /\ UNCHANGED <<commandVars, healthVars, bridgeVars, probeVars, legacyVars, streamVars>>

\* a connected client loses its connection and starts reconnecting
ClientDrop ==
    \E c \in 1..Len(clients) :
        /\ clients[c].state = "connected"
        /\ clients' = [clients EXCEPT ![c].state = "connecting"]
        /\ UNCHANGED <<now, activeClient, activeBrokerId, activeMessageHandler, awaiting,
                       published, lifecycle>>
        /\ UNCHANGED <<commandVars, healthVars, bridgeVars, probeVars, legacyVars, streamVars>>

\* the SWITCH_BROKER handler, from the return of its import to the await of
\* switchBroker (or to its end)
SwitchBroker ==
    \E brokerId \in SwitchArgs :
        /\ activeClient # 0
        /\ Len(lifecycle) < MaxSwitches
        /\ brokerId # Nil
        /\ LET r == switchBroker(clients, activeClient, activeBrokerId, brokerId, now)
           IN  /\ lifecycle' = Append(lifecycle, switchedEvent(activeBrokerId, brokerId))
               /\ clients' = r.clients
               /\ activeBrokerId' = r.activeBrokerId
               /\ awaiting' = IF r.created # 0 THEN awaiting \cup {r.created} ELSE awaiting
        /\ UNCHANGED <<now, activeClient, activeMessageHandler, published>>
        /\ UNCHANGED <<commandVars, healthVars, bridgeVars, probeVars, legacyVars, streamVars>>

\* the clock advances to the next instant; a timer that is due runs first
BrokerTick ==
    /\ \E t \in BrokerInstants :
          /\ t > now
          /\ \A u \in BrokerInstants : ~(now < u /\ u < t)
          /\ \A c \in 1..Len(clients) :
                 clients[c].timeoutAt # NoNum => t <= clients[c].timeoutAt
          /\ now' = t
    /\ UNCHANGED <<commandVars, healthVars, otherVars>>

BrokerNext ==
    \/ ConnectMqtt
    \/ ClientConnect
    \/ ClientError
    \/ ConnectTimeout
    \/ ClientDrop
    \/ SwitchBroker
    \/ BrokerTick

BrokerSpec == Init /\ [][BrokerNext]_vars

----------------------------------------------------------------------------
\* Signaling bridge (remote-bridge.ts)

\* what bridgeLast holds after a callback no claim reads
Other == [op |-> "other", viewer |-> Nil, calls |-> {}]

BridgeRest == <<commandVars, healthVars, brokerVars, probeVars, legacyVars, streamVars>>

\* startRemoteViewing, from the return of its getMediaList fetch
StartRemoteViewing ==
    /\ bridge = "off"
    /\ bridge' = "on"
    /\ bridgeLast' = [op |-> "start", viewer |-> Nil, calls |-> {}]
    /\ UNCHANGED <<now, viewers, conns, recentJoins, joins, leaves, stopPos, nJoins, nLeaves>>
    /\ UNCHANGED <<BridgeRest, joinedAt>>

\* startRemoteViewing called again after stopRemoteViewing has completed
RestartRemoteViewing ==
    /\ bridge = "stopped"
    /\ bridge' = "on"
    /\ bridgeLast' = [op |-> "start", viewer |-> Nil, calls |-> {}]
    /\ UNCHANGED <<now, viewers, conns, recentJoins, joins, leaves, stopPos, nJoins, nLeaves>>
    /\ UNCHANGED <<BridgeRest, joinedAt>>

\* handleViewerJoin up to its first await; status is getStreamingState().status
Join(Vs) ==
    \E v \in Vs, status \in {"running", "stopped"} :
        /\ bridge = "on"
        /\ IF debounced(recentJoins[v], now)
           THEN /\ bridgeLast' = [op |-> "joinIgnored", viewer |-> v, calls |-> {}]
                /\ UNCHANGED <<recentJoins, nJoins, conns, joins, joinedAt>>
           ELSE /\ nJoins < MaxJoins
                /\ nJoins' = nJoins + 1
                /\ recentJoins' = [recentJoins EXCEPT ![v] = now]
                /\ joinedAt' = IF status # "running" THEN joinedAt
                               ELSE [joinedAt EXCEPT ![v] = now]
                /\ IF status # "running"
                   THEN /\ bridgeLast' = [op |-> "joinNoStream", viewer |-> v, calls |-> {}]
                        /\ UNCHANGED <<conns, joins>>
                   ELSE LET c == viewersGet(viewers, v)
                        IN  IF c # 0
                            THEN /\ conns' = cleanupViewer(conns, c)
                                 /\ joins' = joins \cup
                                        {[n |-> nJoins + 1, id |-> v, stage |-> "cleanup"]}
                                 /\ bridgeLast' =
                                        [op |-> "join", viewer |-> v,
                                         calls |-> {Call("hangup", conns[c].peerId)}]
                            ELSE /\ joins' = joins \cup
                                        {[n |-> nJoins + 1, id |-> v, stage |-> "offer"]}
                                 /\ bridgeLast' =
                                        [op |-> "join", viewer |-> v,
                                         calls |-> {Call("createOffer", nJoins + 1)}]
                                 /\ UNCHANGED conns
        /\ UNCHANGED <<now, bridge, viewers, leaves, stopPos, nLeaves>>
        /\ UNCHANGED BridgeRest

\* handleViewerJoin from the return of the hangup of the old connection to the
\* fetch of the offer
JoinCleaned ==
    \E j \in joins :
        /\ j.stage = "cleanup"
        /\ viewers' = viewersDelete(viewers, j.id)
        /\ stopPos' = iteratorAfterDelete(viewers, j.id, stopPos)
        /\ joins' = (joins \ {j}) \cup {[j EXCEPT !.stage = "offer"]}
        /\ bridgeLast' = [op |-> "joinCleaned", viewer |-> j.id,
                          calls |-> {Call("createOffer", j.n)}]
        /\ UNCHANGED <<now, bridge, conns, recentJoins, leaves, nJoins, nLeaves>>
        /\ UNCHANGED <<BridgeRest, joinedAt>>

\* handleViewerJoin from the return of the offer (after its retries): ok is
\* res.ok; publish on a null mqttClient throws into the catch
JoinOffered ==
    \E j \in joins, ok \in BOOLEAN :
        /\ j.stage = "offer"
        /\ joins' = joins \ {j}
        /\ IF ok /\ bridge # "stopped"
           THEN LET r == register(viewers, conns, j.id, j.n, now)
                IN  /\ viewers' = r.viewers
                    /\ conns' = r.conns
                    /\ bridgeLast' = [op |-> "joined", viewer |-> j.id, calls |-> {}]
           ELSE /\ bridgeLast' = [op |-> "joinFailed", viewer |-> j.id, calls |-> {}]
                /\ UNCHANGED <<viewers, conns>>
        /\ UNCHANGED <<now, bridge, recentJoins, leaves, stopPos, nJoins, nLeaves>>
        /\ UNCHANGED <<BridgeRest, joinedAt>>

\* handleAnswer up to its await
Answer(Vs) ==
    \E v \in Vs :
        LET r == handleAnswer(viewers, conns, v)
        IN  /\ bridge = "on"
            /\ conns' = r.conns
            /\ bridgeLast' = [op |-> "answer", viewer |-> v, calls |-> r.calls]
            /\ UNCHANGED <<now, bridge, viewers, recentJoins, joins, leaves, stopPos, nJoins,
                           nLeaves>>
            /\ UNCHANGED <<BridgeRest, joinedAt>>

\* handleRemoteIce up to its await
RemoteIce(Vs) ==
    \E v \in Vs :
        /\ bridge = "on"
        /\ bridgeLast' = [op |-> "ice", viewer |-> v,
                          calls |-> handleRemoteIce(viewers, conns, v)]
        /\ UNCHANGED <<now, bridge, viewers, conns, recentJoins, joins, leaves, stopPos,
                       nJoins, nLeaves>>
        /\ UNCHANGED <<BridgeRest, joinedAt>>

\* a callback of the interval of a connection: pollIce up to its fetch
PollStart ==
    \E c \in 1..Len(conns) :
        /\ conns[c].polling
        /\ bridge \in {"on", "stopping"}
        /\ conns[c].pending < MaxPolls
        /\ conns' = [conns EXCEPT ![c].pending = @ + 1]
        /\ bridgeLast' = [op |-> "poll", viewer |-> conns[c].id,
                          calls |-> {Call("getIceCandidate", conns[c].peerId)}]
        /\ UNCHANGED <<now, bridge, viewers, recentJoins, joins, leaves, stopPos, nJoins,
                       nLeaves>>
        /\ UNCHANGED <<BridgeRest, joinedAt>>

\* pollIce from the return of its fetch
PollReturn ==
    \E c \in 1..Len(conns), ok \in BOOLEAN, candidates \in CandidateLists :
        /\ conns[c].pending > 0
        /\ conns' = [conns EXCEPT ![c] =
                        IF ok
                        THEN pollIce([@ EXCEPT !.pending = @ - 1], candidates,
                                     bridge # "stopped")
                        ELSE [@ EXCEPT !.pending = @ - 1]]
        /\ bridgeLast' =
               [op |-> IF ok /\ \E i \in 1..Len(candidates) :
                                   candidates[i] \in conns[c].iceCandidatesSent
                       THEN "polledAgain" ELSE "polled",
                viewer |-> conns[c].id, calls |-> {}]
        /\ UNCHANGED <<now, bridge, viewers, recentJoins, joins, leaves, stopPos, nJoins,
                       nLeaves>>
        /\ UNCHANGED <<BridgeRest, joinedAt>>

\* the 30 s timer of a connection
CapFire ==
    \E c \in 1..Len(conns) :
        /\ conns[c].capAt # NoNum
        /\ now >= conns[c].capAt
        /\ conns' = [conns EXCEPT ![c].polling = FALSE, ![c].capAt = NoNum]
        /\ bridgeLast' = Other
        /\ UNCHANGED <<now, bridge, viewers, recentJoins, joins, leaves, stopPos, nJoins,
                       nLeaves>>
        /\ UNCHANGED <<BridgeRest, joinedAt>>

\* handleViewerLeave up to its await
Leave(Vs) ==
    \E v \in Vs :
        LET c == viewersGet(viewers, v)
        IN  /\ bridge = "on"
            /\ IF c = 0
               THEN /\ bridgeLast' = [op |-> "leaveUnknown", viewer |-> v, calls |-> {}]
                    /\ UNCHANGED <<conns, leaves, nLeaves>>
               ELSE /\ nLeaves < MaxLeaves
                    /\ nLeaves' = nLeaves + 1
                    /\ conns' = cleanupViewer(conns, c)
                    /\ leaves' = leaves \cup {[n |-> nLeaves + 1, id |-> v, conn |-> c]}
                    /\ bridgeLast' = [op |-> "leave", viewer |-> v,
                                      calls |-> {Call("hangup", conns[c].peerId)}]
            /\ UNCHANGED <<now, bridge, viewers, recentJoins, joins, stopPos, nJoins>>
            /\ UNCHANGED <<BridgeRest, joinedAt>>

\* handleViewerLeave from the return of the hangup
LeaveDone ==
    \E l \in leaves :
        /\ viewers' = viewersDelete(viewers, l.id)
        /\ stopPos' = iteratorAfterDelete(viewers, l.id, stopPos)
        /\ leaves' = leaves \ {l}
        /\ bridgeLast' = [op |-> "left", viewer |-> l.id, calls |-> {}]
        /\ UNCHANGED <<now, bridge, conns, recentJoins, joins, nJoins, nLeaves>>
        /\ UNCHANGED <<BridgeRest, joinedAt>>

\* stopRemoteViewing up to the first await of cleanupAllViewers, or to its
\* end if the table is empty
StopRemoteViewing ==
    /\ bridge = "on"
    /\ IF viewers = <<>>
       THEN /\ bridge' = "stopped"
            /\ recentJoins' = [v \in Viewers |-> NoNum]
            /\ bridgeLast' = [op |-> "stopped", viewer |-> Nil, calls |-> {}]
            /\ UNCHANGED <<conns, stopPos>>
       ELSE /\ bridge' = "stopping"
            /\ stopPos' = 1
            /\ conns' = cleanupViewer(conns, viewers[1].conn)
            /\ bridgeLast' = [op |-> "stop", viewer |-> Nil,
                              calls |-> {Call("hangup", conns[viewers[1].conn].peerId)}]
            /\ UNCHANGED recentJoins
    /\ UNCHANGED <<now, viewers, joins, leaves, nJoins, nLeaves>>
    /\ UNCHANGED <<BridgeRest, joinedAt>>

\* cleanupAllViewers from the return of a hangup: the next entry of the Map,
\* or the end of stopRemoteViewing
StopNext ==
    /\ bridge = "stopping"
    /\ IF stopPos < Len(viewers)
       THEN /\ stopPos' = stopPos + 1
            /\ conns' = cleanupViewer(conns, viewers[stopPos + 1].conn)
            /\ bridgeLast' = [op |-> "stop", viewer |-> Nil,
                              calls |-> {Call("hangup",
                                              conns[viewers[stopPos + 1].conn].peerId)}]
            /\ UNCHANGED <<bridge, viewers, recentJoins>>
       ELSE /\ bridge' = "stopped"
            /\ viewers' = <<>>
            /\ recentJoins' = [v \in Viewers |-> NoNum]
            /\ stopPos' = NoNum
            /\ bridgeLast' = [op |-> "stopped", viewer |-> Nil, calls |-> {}]
            /\ UNCHANGED conns
    /\ UNCHANGED <<now, joins, leaves, nJoins, nLeaves>>
    /\ UNCHANGED <<BridgeRest, joinedAt>>

\* the due times of the 30 s timers that have not run
CapTimes == {conns[c].capAt : c \in {d \in 1..Len(conns) : conns[d].capAt # NoNum}}

\* the clock advances to the next instant; a timer that is due runs first
BridgeTick ==
    /\ \E t \in BridgeInstants \cup CapTimes :
          /\ t > now
          /\ \A u \in BridgeInstants \cup CapTimes : ~(now < u /\ u < t)
          /\ \A u \in CapTimes : now < u
          /\ now' = t
    /\ bridgeLast' = Other
    /\ UNCHANGED <<bridge, viewers, conns, recentJoins, joins, leaves, stopPos, nJoins,
                   nLeaves>>
    /\ UNCHANGED <<BridgeRest, joinedAt>>

\* the life of the connections and of their timers
BridgeNext ==
    \/ StartRemoteViewing
    \/ Join(Viewers)
    \/ JoinCleaned
    \/ JoinOffered
    \/ CapFire
    \/ Leave(Viewers)
    \/ LeaveDone
    \/ StopRemoteViewing
    \/ StopNext
    \/ BridgeTick

BridgeSpec == Init /\ [][BridgeNext]_vars

\* the relay of the ICE candidates of the media engine, for one viewer id
IceNext ==
    \/ StartRemoteViewing
    \/ Join({"v1"})
    \/ JoinCleaned
    \/ JoinOffered
    \/ PollStart
    \/ PollReturn
    \/ StopRemoteViewing
    \/ StopNext
    \/ BridgeTick

IceSpec == Init /\ [][IceNext]_vars

\* the relay of the answers and ICE candidates of the viewers
AnswerNext ==
    \/ StartRemoteViewing
    \/ Join(Viewers)
    \/ JoinCleaned
    \/ JoinOffered
    \/ Answer(Viewers)
    \/ RemoteIce(Viewers)
    \/ Leave(Viewers)
    \/ LeaveDone
    \/ BridgeTick

AnswerSpec == Init /\ [][AnswerNext]_vars

\* the debounce of the joins of one viewer id, the bridge being stopped and
\* started again
JoinNext ==
    \/ StartRemoteViewing
    \/ RestartRemoteViewing
    \/ Join({"v1"})
    \/ JoinCleaned
    \/ JoinOffered
    \/ StopRemoteViewing
    \/ StopNext
    \/ BridgeTick

JoinSpec == Init /\ [][JoinNext]_vars

----------------------------------------------------------------------------
\* Collectors: the background probes

ProbeRest == <<now, commandVars, healthVars, brokerVars, bridgeVars, legacyVars, streamVars>>

\* checkInternet from the return of its fetch
CheckInternet ==
    \E p \in InternetProbes :
        LET r == checkInternet(p)
        IN  /\ cachedOnline' = r.cachedOnline
            /\ cachedLatencyMs' = r.cachedLatencyMs
            /\ probed' = [collector |-> "internet", failed |-> p.threw]
            /\ UNCHANGED <<cachedReachable, cachedPeers, cachedDisk, cachedGpu, gpuStrategy>>
            /\ UNCHANGED ProbeRest

\* checkLocalServer from the return of its fetch
CheckLocalServer ==
    \E p \in LocalServerProbes :
        LET r == checkLocalServer(p)
        IN  /\ cachedReachable' = r.cachedReachable
            /\ cachedPeers' = r.cachedPeers
            /\ probed' = [collector |-> "localServer", failed |-> p.threw]
            /\ UNCHANGED <<cachedOnline, cachedLatencyMs, cachedDisk, cachedGpu, gpuStrategy>>
            /\ UNCHANGED ProbeRest

\* refreshDisk from the exit of its subprocess
RefreshDisk ==
    \E p \in DiskProbes :
        /\ cachedDisk' = refreshDisk(cachedDisk, p)
        /\ probed' = [collector |-> "disk", failed |-> p.threw]
        /\ UNCHANGED <<cachedOnline, cachedLatencyMs, cachedReachable, cachedPeers, cachedGpu,
                       gpuStrategy>>
        /\ UNCHANGED ProbeRest

\* refreshGpu, its subprocesses having exited
RefreshGpu ==
    \E p \in GpuProbes :
        LET r == refreshGpu(cachedGpu, gpuStrategy, p)
        IN  /\ cachedGpu' = r.cachedGpu
            /\ gpuStrategy' = r.gpuStrategy
            /\ probed' = [collector |-> "gpu", failed |-> ~r.ok]
            /\ UNCHANGED <<cachedOnline, cachedLatencyMs, cachedReachable, cachedPeers,
                           cachedDisk>>
            /\ UNCHANGED ProbeRest

\* refreshProcesses with what the probe of getVuosProcessInfo came to
RefreshProcesses ==
    \E p \in ProcessProbes :
        /\ refreshProcesses(getVuosProcessInfo(p))
        /\ probed' = [collector |-> "process", failed |-> p.threw]
        /\ UNCHANGED <<cachedOnline, cachedLatencyMs, cachedReachable, cachedPeers, cachedDisk,
                       cachedGpu, gpuStrategy>>

ProbeNext ==
    \/ CheckInternet
    \/ CheckLocalServer
    \/ RefreshDisk
    \/ RefreshGpu
    \/ RefreshProcesses

ProbeSpec == Init /\ [][ProbeNext]_vars

----------------------------------------------------------------------------
\* Streaming supervisor (streaming.ts) and the handlers of the stream
\* commands (index.ts)

StreamRest == <<commandVars, healthVars, brokerVars, bridgeVars, probeVars, legacyVars>>

StreamCallIds == 1..Len(streamCalls)

\* a handler of a stream command: where it waits and, while stopStreaming
\* awaits an exit, what follows the stop ("done": the handler of STOP_STREAM
\* goes on; "release": startStreaming goes on; "start": the handler of
\* SET_STREAM_QUALITY calls startStreaming)
StreamCall(kind, pc, proc, due, after) ==
    [kind |-> kind, pc |-> pc, proc |-> proc, due |-> due, after |-> after]

\* the call record of a handler that has entered startStreaming
Entered(kind, r) == StreamCall(kind, r.pc, r.proc, r.due, "release")

\* the handler of START_STREAM up to the first await of startStreaming
StartStream ==
    LET r == startStreaming(subprocesses, streamerProcess, currentState, now)
    IN  /\ Len(streamCalls) < MaxStreamCalls
        /\ subprocesses' = r.subprocesses
        /\ streamerProcess' = r.streamerProcess
        /\ currentState' = r.currentState
        /\ streamCalls' = Append(streamCalls, Entered("START_STREAM", r))
        /\ UNCHANGED <<now, exitWatched, StreamRest>>

\* the handler of SET_STREAM_QUALITY up to its await of stopRemoteViewing; it
\* throws unless getStreamingState says running
SetStreamQuality ==
    LET g == getStreamingState(subprocesses, streamerProcess, currentState)
    IN  /\ Len(streamCalls) < MaxStreamCalls
        /\ streamerProcess' = g.streamerProcess
        /\ currentState' = g.currentState
        /\ streamCalls' =
              IF g.currentState.status = "running"
              THEN Append(streamCalls,
                          StreamCall("SET_STREAM_QUALITY", "bridge", 0, NoNum, "start"))
              ELSE Append(streamCalls,
                          StreamCall("SET_STREAM_QUALITY", "failed", 0, NoNum, "start"))
        /\ UNCHANGED <<now, subprocesses, exitWatched, StreamRest>>

\* the handler of STOP_STREAM up to its await of stopRemoteViewing
StopStream ==
    /\ Len(streamCalls) < MaxStreamCalls
    /\ streamCalls' = Append(streamCalls, StreamCall("STOP_STREAM", "bridge", 0, NoNum, "done"))
    /\ UNCHANGED <<now, subprocesses, streamerProcess, currentState, exitWatched, StreamRest>>

\* stopRemoteViewing has returned: the handler calls stopStreaming and, for
\* SET_STREAM_QUALITY, startStreaming when the stop has returned
BridgeStopped ==
    \E c \in StreamCallIds :
        LET call == streamCalls[c]
            s == stopStreaming(subprocesses, streamerProcess, currentState)
            r == startStreaming(s.subprocesses, s.streamerProcess, s.currentState, now)
        IN  /\ call.pc = "bridge"
            /\ IF s.awaits # 0
               THEN /\ subprocesses' = s.subprocesses
                    /\ streamerProcess' = s.streamerProcess
                    /\ currentState' = s.currentState
                    /\ streamCalls' = [streamCalls EXCEPT ![c].pc = "stopping",
                                                          ![c].proc = s.awaits]
               ELSE IF call.after = "done"
               THEN /\ subprocesses' = s.subprocesses
                    /\ streamerProcess' = s.streamerProcess
                    /\ currentState' = s.currentState
                    /\ streamCalls' = [streamCalls EXCEPT ![c].pc = "done"]
               ELSE /\ subprocesses' = r.subprocesses
                    /\ streamerProcess' = r.streamerProcess
                    /\ currentState' = r.currentState
                    /\ streamCalls' = [streamCalls EXCEPT ![c] = Entered(call.kind, r)]
            /\ UNCHANGED <<now, exitWatched, StreamRest>>

\* the exit of subprocess p is delivered: the exit handler of startStreaming
\* runs if it is on p, and every stopStreaming that awaits the exit runs to its
\* end; a handler of SET_STREAM_QUALITY then enters startStreaming
ProcessExits ==
    \E p \in 1..Len(subprocesses) :
        LET waiters == {c \in StreamCallIds :
                           streamCalls[c].pc = "stopping" /\ streamCalls[c].proc = p}
            exited == [subprocesses EXCEPT ![p] = "exited"]
            st == IF waiters # {} THEN Stopped
                  ELSE IF p \in exitWatched THEN onExited(currentState)
                  ELSE currentState
            sp == IF waiters # {} \/ p \in exitWatched THEN 0 ELSE streamerProcess
            restarts == \E c \in waiters : streamCalls[c].after = "start"
            r == startStreaming(exited, sp, st, now)
        IN  /\ subprocesses[p] # "exited"
            /\ subprocesses' = IF restarts THEN r.subprocesses ELSE exited
            /\ streamerProcess' = IF restarts THEN r.streamerProcess ELSE sp
            /\ currentState' = IF restarts THEN r.currentState ELSE st
            /\ streamCalls' =
                  [c \in StreamCallIds |->
                      IF c \notin waiters THEN streamCalls[c]
                      ELSE IF streamCalls[c].after = "done"
                      THEN [streamCalls[c] EXCEPT !.pc = "done", !.proc = 0]
                      ELSE IF streamCalls[c].after = "release"
                      THEN [streamCalls[c] EXCEPT !.pc = "release", !.proc = 0,
                                                  !.due = now + PORT_RELEASE_MS]
                      ELSE Entered(streamCalls[c].kind, r)]
            /\ exitWatched' = exitWatched \ {p}
            /\ UNCHANGED <<now, StreamRest>>

\* the 1 s timer of startStreaming: taskkill, then the 1.5 s wait
Released ==
    \E c \in StreamCallIds :
        /\ streamCalls[c].pc = "release"
        /\ now >= streamCalls[c].due
        /\ subprocesses' = taskkill(subprocesses)
        /\ streamCalls' = [streamCalls EXCEPT ![c].pc = "zombies",
                                              ![c].due = now + ZOMBIE_KILL_MS]
        /\ UNCHANGED <<now, streamerProcess, currentState, exitWatched, StreamRest>>

\* the 1.5 s timer of startStreaming: the scan for a free port begins
ZombiesKilled ==
    \E c \in StreamCallIds :
        /\ streamCalls[c].pc = "zombies"
        /\ now >= streamCalls[c].due
        /\ streamCalls' = [streamCalls EXCEPT ![c].pc = "ports", ![c].due = NoNum]
        /\ UNCHANGED <<now, subprocesses, streamerProcess, currentState, exitWatched,
                       StreamRest>>

\* the port scans have returned: with a port the subprocess is spawned, with
\* none startStreaming throws
PortsFound ==
    \E c \in StreamCallIds, found \in BOOLEAN :
        LET r == spawn(subprocesses, now)
        IN  /\ streamCalls[c].pc = "ports"
            /\ IF found
               THEN /\ subprocesses' = r.subprocesses
                    /\ streamerProcess' = r.streamerProcess
                    /\ currentState' = r.currentState
                    /\ streamCalls' = [streamCalls EXCEPT ![c].pc = r.pc, ![c].due = r.due]
               ELSE /\ streamCalls' = [streamCalls EXCEPT ![c].pc = "failed"]
                    /\ UNCHANGED <<subprocesses, streamerProcess, currentState>>
            /\ UNCHANGED <<now, exitWatched, StreamRest>>

\* waitForPort has returned: a media engine answers on the port
PortAnswers ==
    \E c \in StreamCallIds :
        LET r == started(subprocesses, streamerProcess, currentState, exitWatched, now)
        IN  /\ streamCalls[c].pc = "waitForPort"
            /\ \E p \in 1..Len(subprocesses) : subprocesses[p] = "alive"
            /\ currentState' = r.currentState
            /\ streamerProcess' = r.streamerProcess
            /\ exitWatched' = r.exitWatched
            /\ streamCalls' = [streamCalls EXCEPT ![c].pc = r.pc, ![c].due = NoNum]
            /\ UNCHANGED <<now, subprocesses, StreamRest>>

\* waitForPort has thrown after its 10 s: the catch of startStreaming
PortTimeout ==
    \E c \in StreamCallIds :
        /\ streamCalls[c].pc = "waitForPort"
        /\ now >= streamCalls[c].due
        /\ currentState' = [currentState EXCEPT !.status = "error", !.error = "Timeout"]
        /\ streamCalls' = [streamCalls EXCEPT ![c].pc = "failed", ![c].due = NoNum]
        /\ UNCHANGED <<now, subprocesses, streamerProcess, exitWatched, StreamRest>>

\* the due times of the timers that are pending
StreamDues == {streamCalls[c].due : c \in StreamCallIds} \ {NoNum}

\* the clock advances to the next instant or due time; a timer of
\* startStreaming that is due runs first
StreamTick ==
    LET times == {t \in StreamInstants \cup StreamDues : t > now}
    IN  /\ times # {}
        /\ \A c \in StreamCallIds :
               streamCalls[c].pc \in {"release", "zombies"} => now < streamCalls[c].due
        /\ now' = CHOOSE t \in times : \A u \in times : t <= u
        /\ UNCHANGED <<commandVars, healthVars, otherVars>>

StreamNext ==
    \/ StartStream
    \/ SetStreamQuality
    \/ StopStream
    \/ BridgeStopped
    \/ ProcessExits
    \/ Released
    \/ ZombiesKilled
    \/ PortsFound
    \/ PortAnswers
    \/ PortTimeout
    \/ StreamTick

StreamSpec == Init /\ [][StreamNext]_vars

----------------------------------------------------------------------------
\* Reading the history

CallIds == 1..Len(calls)

\* what call n emitted, in order
Outs(n) == SelectSeq(trace, LAMBDA x : x.call = n)

\* the acks of call n, in order
AckSeq(n) == SelectSeq(trace, LAMBDA x : x.call = n /\ x.kind = "ack")

Names(q) == [i \in 1..Len(q) |-> q[i].name]

\* the handler was invoked for call n
Dispatched(n) == \E i \in 1..Len(trace) : trace[i].call = n /\ trace[i].kind = "invoke"

\* the position in trace at which call n entered handle
EntryPos(n) ==
    CHOOSE i \in 1..Len(trace) :
        trace[i].call = n /\ trace[i].kind = "event" /\ trace[i].name = "COMMAND_RECEIVED"

CommandId(n) == calls[n].payload.commandId

\* positions before pos of the acks with this status for this commandId
AcksBefore(id, status, pos) ==
    {i \in 1..(pos - 1) :
        trace[i].kind = "ack" /\ trace[i].name = status /\ CommandId(trace[i].call) = id}

Max(S) == CHOOSE x \in S : \A y \in S : y <= x

\* the lease was active, as the data model defines it, when call n was checked
LeaseActiveAt(n) == calls[n].lease.owner # Nil /\ calls[n].lease.expiresTs > calls[n].at

\* the step is a call of handle
IsCall == Len(calls') = Len(calls) + 1

\* the checks of section 4.6 that deny a command, on the inputs of call n
TtlDenied(n) == calls[n].payload.ts + calls[n].payload.ttlMs < calls[n].at
UnknownType(n) == calls[n].payload.type \notin DOMAIN Registry
LeaseDenied(n) ==
    /\ ~UnknownType(n)
    /\ Registry[calls[n].payload.type].requiresLease
    /\ ~(calls[n].isLocal /\ Registry[calls[n].payload.type].localBypass)
    /\ ~(LeaseActiveAt(n) /\ calls[n].lease.owner = calls[n].clientId)
Denied(n) == TtlDenied(n) \/ UnknownType(n) \/ LeaseDenied(n)

----------------------------------------------------------------------------
\* C1: for every commandId the registered handler is invoked at most once,
\* whatever the sequence and interleaving of the handle calls.
HandlerAtMostOncePerCommandId ==
    \A n1, n2 \in CallIds :
        (Dispatched(n1) /\ Dispatched(n2) /\ CommandId(n1) = CommandId(n2)) => n1 = n2

\* C2 as stated: a call whose handler is dispatched emits RECEIVED and then
\* exactly one of APPLIED or FAILED; a call whose handler is not dispatched
\* emits exactly one of REJECTED or EXPIRED and no RECEIVED.
AckOrderAsStated ==
    \A n \in CallIds :
        LET a == Names(AckSeq(n))
        IN  IF Dispatched(n)
            THEN IF calls[n].state = "awaiting"
                 THEN a = <<"RECEIVED">>
                 ELSE Len(a) = 2 /\ a[1] = "RECEIVED" /\ a[2] \in {"APPLIED", "FAILED"}
            ELSE Len(a) = 1 /\ a[1] \in {"REJECTED", "EXPIRED"}

\* C2 amended: as stated, except that a call that is not dispatched because its
\* commandId is in the idempotency store emits the stored APPLIED ack, alone.
AckOrder ==
    \A n \in CallIds :
        LET a == Names(AckSeq(n))
        IN  IF Dispatched(n)
            THEN IF calls[n].state = "awaiting"
                 THEN a = <<"RECEIVED">>
                 ELSE Len(a) = 2 /\ a[1] = "RECEIVED" /\ a[2] \in {"APPLIED", "FAILED"}
            ELSE /\ Len(a) = 1
                 /\ calls[n].state = "done"
                 /\ IF calls[n].cached THEN a[1] = "APPLIED" ELSE a[1] \in {"REJECTED", "EXPIRED"}

\* a dispatched call has completed and a duplicate was answered from the store
AckOrderWitness ==
    /\ \E n \in CallIds : Dispatched(n) /\ Len(AckSeq(n)) = 2
    /\ \E n \in CallIds : ~Dispatched(n) /\ calls[n].cached

RemoteLeased(n) ==
    /\ ~calls[n].isLocal
    /\ ~UnknownType(n)
    /\ Registry[calls[n].payload.type].requiresLease

\* call n reached the authorization check: no stored ack answered it and its
\* TTL had not passed
Authorized(n) == ~calls[n].cached /\ ~TtlDenied(n)

LastApplied(n) == trace[Max(AcksBefore(CommandId(n), "APPLIED", EntryPos(n)))]

\* call n entered handle after an APPLIED ack for its commandId, less than the
\* idempotency TTL after the last of them
WithinIdempotencyTtl(n) ==
    /\ AcksBefore(CommandId(n), "APPLIED", EntryPos(n)) # {}
    /\ calls[n].at < LastApplied(n).ts + IDEMPOTENCY_TTL_MS

\* C5: a handle call for a commandId that completed with APPLIED less than
\* 60 000 ms before emits that terminal ack again (same status, message, details
\* and ts), emits no RECEIVED and does not invoke the handler.
DuplicateReplaysApplied ==
    \A n \in CallIds :
        WithinIdempotencyTtl(n) =>
            /\ ~Dispatched(n)
            /\ Len(AckSeq(n)) = 1
            /\ AckSeq(n)[1] = [LastApplied(n) EXCEPT !.call = n]

\* a duplicate was answered, at a later time than the ack it repeats and after
\* a pass of the sweeper
DuplicateReplaysAppliedWitness ==
    \E n \in CallIds :
        /\ WithinIdempotencyTtl(n)
        /\ calls[n].at >= SWEEP_INTERVAL_MS
        /\ LastApplied(n).ts < calls[n].at
        /\ nextSweep > SWEEP_INTERVAL_MS

\* lease payloads on which update is compared with its rule
LeaseInputs == [owner : Owners \cup {"ops-7"}, expiresTs : {1, 30000, 60001}]

\* C6: update(P) sets (owner, expiresTs) to P's exactly when the current owner
\* is nil, or the current expiresTs <= now, or the current owner is P.owner, and
\* changes nothing otherwise; so while a lease is active, no step gives it
\* another owner.
LeaseUpdateRule ==
    /\ [](\A P \in LeaseInputs :
            LET l == update(owner, expiresTs, now, P)
            IN  IF owner = Nil \/ expiresTs <= now \/ owner = P.owner
                THEN l.owner = P.owner /\ l.expiresTs = P.expiresTs
                ELSE l.owner = owner /\ l.expiresTs = expiresTs)
    /\ [][(owner # Nil /\ expiresTs > now) => owner' = owner]_vars

\* an update of another owner was rejected while the lease was active
LeaseRejectedWitness ==
    /\ owner = "ops-42"
    /\ expiresTs > now
    /\ leaseLog = "Rejected lease request from " \o LocalClientId

\* C7: isActive() is true exactly when owner is not nil and expiresTs > now,
\* and getOwner() is the owner then and nil otherwise; a lease whose expiresTs
\* the clock has reached is inactive without any message.
LeaseActiveIff ==
    /\ isActive(owner, expiresTs, now) <=> (owner # Nil /\ expiresTs > now)
    /\ getOwner(owner, expiresTs, now) = (IF owner # Nil /\ expiresTs > now THEN owner ELSE Nil)
    /\ \A n \in CallIds :
          (RemoteLeased(n) /\ Authorized(n) /\ calls[n].lease.owner = calls[n].clientId) =>
              (Dispatched(n) <=> calls[n].lease.expiresTs > calls[n].at)

\* the lease the owner was granted expired by the clock reaching expiresTs, and
\* the owner's command was refused at that instant
LeaseActiveIffWitness ==
    /\ owner # Nil
    /\ expiresTs = now
    /\ \E n \in CallIds :
          /\ RemoteLeased(n) /\ Authorized(n)
          /\ calls[n].lease.owner = calls[n].clientId
          /\ calls[n].at = calls[n].lease.expiresTs
          /\ ~Dispatched(n)

\* call n is local, of a type with requiresLease and localBypass, and arrived
\* with no active lease
LocalOverride(n) ==
    /\ calls[n].isLocal
    /\ ~UnknownType(n)
    /\ Registry[calls[n].payload.type].requiresLease
    /\ Registry[calls[n].payload.type].localBypass
    /\ ~LeaseActiveAt(n)

\* C8: a local command of a type with requiresLease and localBypass that
\* arrives while no lease is active emits exactly one LOCAL_OVERRIDE_USED event,
\* then the RECEIVED ack, then the handler runs, then the APPLIED ack.
LocalOverrideSequence ==
    \A n \in CallIds :
        (LocalOverride(n) /\ calls[n].state = "done" /\ "FAILED" \notin {AckSeq(n)[i].name : i \in 1..Len(AckSeq(n))}) =>
            Names(Outs(n)) =
                <<"COMMAND_RECEIVED", "LOCAL_OVERRIDE_USED", "RECEIVED",
                  calls[n].payload.type, "APPLIED">>

\* the local commands without bypass, by the plan's section Local Bypass
NoBypassTypes == {"STOP_VUOS", "QUIT_WATCHDOG", "SWITCH_BROKER"}

\* C9: a local STOP_VUOS, QUIT_WATCHDOG or SWITCH_BROKER is REJECTED unless an
\* active lease is owned by the issuing clientId; a local RESTART_VUOS,
\* START_VUOS, REQUEST_TELEMETRY or REQUEST_CONFIG is dispatched without lease.
LocalBypassAsPlanned ==
    \A n \in CallIds :
        calls[n].isLocal =>
            IF calls[n].payload.type \in NoBypassTypes
            THEN ~(LeaseActiveAt(n) /\ calls[n].lease.owner = calls[n].clientId) =>
                     (~Dispatched(n) /\ Names(AckSeq(n)) = <<"REJECTED">>)
            ELSE Dispatched(n)

\* positions of the FAILED acks sent before call n entered handle
FailedBefore(n) == AcksBefore(CommandId(n), "FAILED", EntryPos(n))

\* C10: a failing handler gets the terminal ack FAILED with the failure message
\* and the idempotency store is left as it was; a later call with the same
\* commandId, none having been APPLIED, is not answered from the store: it is
\* checked again and dispatched when it passes the checks.
FailedNotCached ==
    /\ [](\A i \in 1..Len(trace) :
            (trace[i].kind = "ack" /\ trace[i].name = "FAILED") =>
                trace[i].message \in ((ErrMessages \ {""}) \cup {"Execution failed"}))
    /\ [](\A n \in CallIds :
            (FailedBefore(n) # {} /\ AcksBefore(CommandId(n), "APPLIED", EntryPos(n)) = {}) =>
                /\ ~calls[n].cached
                /\ AckSeq(n)[1].name # "FAILED"
                /\ Dispatched(n) <=> ~Denied(n))
    /\ [][(Len(trace') = Len(trace) + 1 /\ trace'[Len(trace')].name = "FAILED") =>
             idempotencyStore' = idempotencyStore]_vars

\* a command failed and a later call with its commandId ran the handler again
FailedNotCachedWitness ==
    \E n \in CallIds : FailedBefore(n) # {} /\ Dispatched(n)

\* call n was answered EXPIRED
Expired(n) == Len(AckSeq(n)) >= 1 /\ AckSeq(n)[1].name = "EXPIRED"

\* C11 as stated: a command with ttlMs = 0 whose ts is the instant of the TTL
\* check is classified EXPIRED.
TtlBoundaryAsStated ==
    \A n \in CallIds :
        (~calls[n].cached /\ calls[n].payload.ttlMs = 0 /\ calls[n].payload.ts = calls[n].at)
            => Expired(n)

\* C11 amended: a command that reaches the TTL check is EXPIRED exactly when
\* ts + ttlMs < now at the check; so a command with ttlMs = 0 and ts = now is not
\* EXPIRED, and it is EXPIRED one millisecond later.
TtlBoundary ==
    \A n \in CallIds :
        ~calls[n].cached =>
            /\ Expired(n) <=> calls[n].payload.ts + calls[n].payload.ttlMs < calls[n].at
            /\ (calls[n].payload.ttlMs = 0 /\ calls[n].payload.ts = calls[n].at) => ~Expired(n)

\* a command with ttlMs = 0 was checked at the instant ts and passed the TTL
\* check, and the same command was EXPIRED one millisecond later
TtlBoundaryWitness ==
    /\ \E n \in CallIds :
          /\ calls[n].payload.ttlMs = 0 /\ calls[n].payload.ts = calls[n].at
          /\ ~Expired(n)
    /\ \E n \in CallIds :
          /\ calls[n].payload.ttlMs = 0 /\ calls[n].at = calls[n].payload.ts + 1
          /\ Expired(n)

----------------------------------------------------------------------------
\* Reading the health plane

\* the step is an evaluation of the conditions (the initial one or a callback
\* of the loop); the step is a callback of the loop
IsEvaluation == nextPublish' # nextPublish
IsMainLoop == nextPublish # NoNum /\ nextPublish' # nextPublish

\* the time of the last evaluation
LastEvaluation == nextPublish - PUBLISH_INTERVAL_MS

Types(evs) == {evs[i].type : i \in 1..Len(evs)}

Range(q) == {q[i] : i \in 1..Len(q)}

\* C12: after each evaluation, every condition with active = true has
\* rawActive = true and its predicate has held at every evaluation over a span
\* of at least debounceMs ending at that evaluation (or debounceMs = 0); an
\* evaluation at which the predicate is false resets rawActive = false,
\* active = false, activeSince = nil, so that the debounce starts again.
DebounceHolds ==
    /\ [](\A id \in ConditionIds :
            conditionStates[id].active =>
                /\ conditionStates[id].rawActive
                /\ heldSince[id] # NoNum
                /\ Def[id].debounceMs = 0
                   \/ LastEvaluation - heldSince[id] >= Def[id].debounceMs)
    /\ [][IsEvaluation =>
            \A id \in ConditionIds :
                heldSince'[id] = NoNum =>
                    conditionStates'[id] =
                        [rawActive |-> FALSE, active |-> FALSE, activeSince |-> NoNum]]_vars

\* a debounced condition became active when its predicate had held for exactly
\* its debounce, while another one is still waiting for its own
DebounceWitness ==
    /\ \E id \in ConditionIds :
          /\ conditionStates[id].active
          /\ Def[id].debounceMs > 0
          /\ LastEvaluation - heldSince[id] = Def[id].debounceMs
    /\ \E id \in ConditionIds : conditionStates[id].rawActive /\ ~conditionStates[id].active

\* some condition of this level is active
AnyActive(level) ==
    \E id \in ConditionIds : conditionStates[id].active /\ Def[id].level = level

\* C13: the mode computed at an evaluation is SHUTTING_DOWN if the flag is set;
\* otherwise STARTING if the process is younger than 5 s, whatever is active;
\* otherwise CRITICAL if a CRITICAL condition is active; otherwise DEGRADED if a
\* DEGRADED condition is active; otherwise READY.  At 4.999 s it is STARTING, at
\* 5.001 s with nothing active READY.
ModeAsStated ==
    [][IsEvaluation =>
        LET mode == mainPreviousMode'
            age == now' - startTime
        IN  /\ shuttingDown' => mode = "SHUTTING_DOWN"
            /\ (~shuttingDown' /\ age < 5000) => mode = "STARTING"
            /\ (~shuttingDown' /\ age >= 5000 /\ AnyActive("CRITICAL")') => mode = "CRITICAL"
            /\ (~shuttingDown' /\ age >= 5000 /\ ~AnyActive("CRITICAL")'
                /\ AnyActive("DEGRADED")') => mode = "DEGRADED"
            /\ (~shuttingDown' /\ age >= 5000 /\ ~AnyActive("CRITICAL")'
                /\ ~AnyActive("DEGRADED")') => mode = "READY"
            /\ age = 4999 => mode = "STARTING"
            /\ (age = 5001 /\ ~shuttingDown'
                /\ \A id \in ConditionIds : ~conditionStates'[id].active) => mode = "READY"]_vars

\* the mode was STARTING at 4.999 s although a CRITICAL condition was active
ModeAsStatedWitness ==
    /\ now = 4999
    /\ LastEvaluation = now
    /\ mainPreviousMode = "STARTING"
    /\ AnyActive("CRITICAL")

\* disk percentages around the two thresholds, in tenths
DiskValues == {0, 899, 900, 969, 970, 1000}

LexRank ==
    [id \in ConditionIds |->
        CASE id = "DISK_FULL" -> 1
          [] id = "DISK_HIGH" -> 2
          [] id = "ERRORS_HIGH" -> 3
          [] id = "GPU_PROBE_FAILED" -> 4
          [] id = "INTERNET_OFFLINE" -> 5
          [] id = "LATENCY_HIGH" -> 6
          [] id = "LOCK_STALE" -> 7
          [] id = "SERVER_DOWN" -> 8
          [] id = "THERMAL_THROTTLING" -> 9
          [] id = "VUOS_DOWN" -> 10]

\* C15: in every HealthPayload, conditions holds exactly the ids of the active
\* conditions, each once, sorted lexicographically by id.
HealthConditionsSorted ==
    health.mode # Nil =>
        /\ Range(health.conditions) = {id \in ConditionIds : conditionStates[id].active}
        /\ \A i, j \in 1..Len(health.conditions) :
              i < j => LexRank[health.conditions[i]] < LexRank[health.conditions[j]]

\* how many of these events have this type
Count(evs, type) == Cardinality({i \in 1..Len(evs) : evs[i].type = type})

\* condition id was active in the evaluation the last HealthPayload was built
\* from: the value the previous updateConditions call was given, none having
\* been given before the first call
WasActive(id) == id \in Range(health.conditions)

\* C16: for every condition id, the {id}_ON and {id}_OFF events alternate,
\* starting with _ON; {id}_REMINDER is emitted only after an _ON not yet followed
\* by an _OFF; an updateConditions call that is given the active value of the
\* call before emits neither _ON nor _OFF.
EdgeAlternation ==
    [][IsMainLoop =>
        \A id \in ConditionIds :
            LET on == Count(events', id \o "_ON")
                off == Count(events', id \o "_OFF")
                reminder == Count(events', id \o "_REMINDER")
            IN  /\ on + off + reminder <= 1
                /\ on = 1 => edge[id] \in {"none", "OFF"}
                /\ off = 1 => edge[id] = "ON"
                /\ reminder = 1 => edge[id] = "ON"
                /\ WasActive(id) = conditionStates'[id].active => (on = 0 /\ off = 0)]_vars

\* a condition was raised and cleared while a reminder is emitted for another
\* one, raised ten minutes before and never cleared
EdgeAlternationWitness ==
    /\ \E id \in ConditionIds : edge[id] = "OFF"
    /\ \E id \in ConditionIds : edge[id] = "ON" /\ id \o "_REMINDER" \in Types(events)

\* the severity of MODE_CHANGED for the new mode
ModeSeverity(mode) ==
    CASE mode \in {"READY", "STARTING", "SHUTTING_DOWN"} -> "INFO"
      [] mode = "DEGRADED" -> "WARN"
      [] mode = "CRITICAL" -> "CRITICAL"

ModeChanges(evs) == SelectSeq(evs, LAMBDA e : e.type = "MODE_CHANGED")

\* C17: a call of updateMode whose mode differs from the mode of the call
\* before emits exactly one MODE_CHANGED{from, to}, from being the mode of the
\* call before, at INFO when the new mode is READY, STARTING or SHUTTING_DOWN,
\* WARN when DEGRADED, CRITICAL when CRITICAL; any other call emits none.
ModeChangedOnce ==
    [][IsMainLoop =>
        IF health.mode # Nil /\ health.mode # health'.mode
        THEN ModeChanges(events') =
                <<Event("MODE_CHANGED", ModeSeverity(health'.mode), health.mode, health'.mode)>>
        ELSE ModeChanges(events') = <<>>]_vars

\* the loop has announced the change from READY to SHUTTING_DOWN at INFO
ModeChangedOnceWitness ==
    /\ health.mode = "SHUTTING_DOWN"
    /\ ModeChanges(events) = <<Event("MODE_CHANGED", "INFO", "READY", "SHUTTING_DOWN")>>

\* the process has started cold, the collectors report nominal values and the
\* loop has not run yet: the initial mode is STARTING and nothing is triggered
ColdStart ==
    /\ nextPublish # NoNum
    /\ health.mode = Nil
    /\ mainPreviousMode = "STARTING"
    /\ last.reading = Nominal
    /\ cachedVuosRunning /\ cachedServerRunning
    /\ \A id \in ConditionIds : ~conditionStates[id].rawActive

\* C18: after a cold start with nominal collectors, the first callback of the
\* loop past the 5 s warm-up takes the mode from STARTING to READY, emits exactly
\* one MODE_CHANGED{from: STARTING, to: READY} at INFO and builds a HealthPayload
\* with mode READY and no conditions.
ColdStartReady ==
    [][(ColdStart /\ IsMainLoop /\ last'.reading = Nominal) =>
          /\ health' = [mode |-> "READY", conditions |-> <<>>]
          /\ ModeChanges(events') = <<Event("MODE_CHANGED", "INFO", "STARTING", "READY")>>]_vars

\* the step is the crash detection of refreshProcesses
IsRefresh == last'.op = "refreshProcesses"

\* the count refreshProcesses starts from: 0 when the date has changed
CountToday == IF today # crashCountDate THEN 0 ELSE cachedCrashCount

\* C19: crashCountToday grows by exactly one each time the target app is
\* observed running with a pid different from the last observed one; observing
\* it absent changes neither the count nor the remembered pid; the first pid
\* observed does not count; the count restarts from 0 when the calendar date
\* has changed; nothing else changes the count.
CrashCounting ==
    [][IF IsRefresh
       THEN LET info == last'.obs
                seen == info.running /\ info.pid # NoNum
            IN  /\ (seen /\ lastKnownPid # NoNum /\ info.pid # lastKnownPid) =>
                       cachedCrashCount' = CountToday + 1
                /\ (seen /\ (lastKnownPid = NoNum \/ info.pid = lastKnownPid)) =>
                       cachedCrashCount' = CountToday
                /\ seen => lastKnownPid' = info.pid
                /\ ~info.running =>
                       (cachedCrashCount' = CountToday /\ lastKnownPid' = lastKnownPid)
                /\ today # crashCountDate => cachedCrashCount' <= 1
       ELSE cachedCrashCount' = cachedCrashCount /\ lastKnownPid' = lastKnownPid]_vars

\* after the date changed, the app was observed with another pid than the last
\* one: the count of the new day is 1
CrashCountingWitness ==
    /\ last.op = "refreshProcesses"
    /\ crashCountDate = Dates[2]
    /\ cachedCrashCount = 1
    /\ cachedVuosRunning
    /\ lastKnownPid = 1002

\* C20: every detected crash (the target app running with another pid than
\* the last one observed) emits a VUOS_CRASHED event on the event stream; and
\* while the app is up, as in the scenario pid 1000 -> 1002, the loop emits no
\* VUOS_DOWN_ON.
CrashEventEmitted ==
    [][/\ (IsRefresh /\ last'.obs.running /\ last'.obs.pid # NoNum
           /\ lastKnownPid # NoNum /\ last'.obs.pid # lastKnownPid) =>
              Count(events', "VUOS_CRASHED") = 1
       /\ (IsMainLoop /\ cachedVuosRunning) => "VUOS_DOWN_ON" \notin Types(events')]_vars

\* C30: handle applies its checks in the order idempotency, TTL, registry
\* lookup, lease: a call whose commandId is in the store is answered with the
\* stored APPLIED ack even when its ts + ttlMs has passed; otherwise a call whose
\* TTL has passed is EXPIRED even when its type is unknown; otherwise an unknown
\* type is REJECTED "Unknown command", whatever the lease.  Every call emits
\* COMMAND_RECEIVED before anything else.
ChecksInOrder ==
    \A n \in CallIds :
        /\ Outs(n)[1].kind = "event" /\ Outs(n)[1].name = "COMMAND_RECEIVED"
        /\ Outs(n)[2].kind = "ack"
        /\ calls[n].cached =>
               (AckSeq(n)[1] = [LastApplied(n) EXCEPT !.call = n] /\ Len(AckSeq(n)) = 1)
        /\ (~calls[n].cached /\ TtlDenied(n)) => Names(AckSeq(n)) = <<"EXPIRED">>
        /\ (~calls[n].cached /\ ~TtlDenied(n) /\ UnknownType(n)) =>
               /\ Names(AckSeq(n)) = <<"REJECTED">>
               /\ AckSeq(n)[1].message = "Unknown command: " \o calls[n].payload.type

\* a duplicate whose TTL had passed was answered with the stored APPLIED ack
ChecksInOrderWitness ==
    \E n \in CallIds :
        /\ calls[n].cached
        /\ TtlDenied(n)
        /\ Names(AckSeq(n)) = <<"APPLIED">>

----------------------------------------------------------------------------
\* Reading the broker client

\* messages of the broker of client c reach the message handler
Live(c) == clients[c].state = "connected" /\ clients[c].handler # Nil

\* the step is a SWITCH_BROKER handler that went through switchBroker
IsSwitchCall == Len(lifecycle') = Len(lifecycle) + 1

\* the step starts a switch: switchBroker went past its two early exits
SwitchStarts == Len(clients) > 0 /\ Len(clients') = Len(clients) + 1

\* the step ends a switch: the createClient that switchBroker awaits resolved
SwitchEnds == activeClient # 0 /\ activeClient' # activeClient

\* C21: at any time at most one broker connection is the active one;
\* switchBroker(id) with id the active broker and its client connected does
\* nothing; otherwise it ends the old connection, publishes no offline status,
\* connects to the target and subscribes the new client to command/+, lease
\* and control with the same message handler.
OneActiveConnection ==
    /\ [](Cardinality({c \in 1..Len(clients) : Live(c)}) <= 1)
    /\ [](\A m \in published : m.status # "offline")
    /\ [][(IsSwitchCall /\ ~SwitchStarts) =>
              UNCHANGED <<clients, activeClient, activeBrokerId, published>>]_vars
    /\ [][SwitchStarts =>
              /\ clients'[activeClient].state = "ended"
              /\ clients'[Len(clients')].broker = activeBrokerId'
              /\ published' = published]_vars
    /\ [][SwitchEnds =>
              /\ clients'[activeClient'].state = "connected"
              /\ clients'[activeClient'].subs = {"command/+", "lease", "control"}
              /\ clients'[activeClient'].handler = OnMessage
              /\ \A c \in 1..Len(clients) : c # activeClient' => ~Live(c)]_vars

----------------------------------------------------------------------------
\* Reading the signaling bridge

\* the connections of viewerId whose ICE-polling interval is live
Polling(viewerId) == {c \in 1..Len(conns) : conns[c].id = viewerId /\ conns[c].polling}

\* the connections the viewer table holds
Registered == {viewers[i].conn : i \in 1..Len(viewers)}

\* the step is the end of a handleViewerJoin that built a connection
IsRegistration == Len(conns') = Len(conns) + 1

\* C23: at every moment at most one ViewerConnection, and at most one live
\* ICE-polling interval, exists per viewerId; when a join registers a new
\* connection, every earlier connection of that viewerId has had its interval
\* cleared and hangup called for its peer, also when two join handlers for
\* the viewerId were in progress at the same time.
OneConnectionPerViewer ==
    /\ [](\A v \in Viewers : Cardinality(Polling(v)) <= 1)
    /\ [][IsRegistration =>
              \A c \in 1..Len(conns) :
                  conns[c].id = conns'[Len(conns')].id =>
                      ~conns'[c].polling /\ conns'[c].hangup >= 1]_vars

\* C24: once stopRemoteViewing has completed, no ICE-polling interval of any
\* ViewerConnection created since the bridge was started is live and hangup
\* has been called for the peer of every such connection, whatever joins,
\* leaves and timers interleaved with the stop.
StopCleansAll ==
    bridge = "stopped" =>
        \A c \in 1..Len(conns) : ~conns[c].polling /\ conns[c].hangup >= 1

\* C25: per ViewerConnection answerReceived is latched: the first answer of
\* the viewer is forwarded to setAnswer for the peer of the connection, every
\* later answer on that connection is discarded, so that setAnswer is called
\* at most once per connection; an answer or an ICE candidate from a viewerId
\* without a connection in the table causes no call of the media engine.
AnswerLatched ==
    /\ [](\A c \in 1..Len(conns) :
              /\ conns[c].setAnswer <= 1
              /\ conns[c].answerReceived <=> conns[c].setAnswer = 1)
    /\ [][bridgeLast'.op = "answer" =>
              LET c == viewersGet(viewers, bridgeLast'.viewer)
              IN  IF c = 0 THEN bridgeLast'.calls = {} /\ conns' = conns
                  ELSE IF conns[c].answerReceived
                  THEN bridgeLast'.calls = {} /\ conns' = conns
                  ELSE /\ bridgeLast'.calls = {Call("setAnswer", conns[c].peerId)}
                       /\ conns'[c].answerReceived]_vars
    /\ [][bridgeLast'.op = "ice" /\ viewersGet(viewers, bridgeLast'.viewer) = 0 =>
              bridgeLast'.calls = {}]_vars

\* a second answer of a viewer whose connection has had its answer
AnswerLatchedWitness ==
    /\ bridgeLast.op = "answer"
    /\ bridgeLast.calls = {}
    /\ viewersGet(viewers, bridgeLast.viewer) # 0
    /\ conns[viewersGet(viewers, bridgeLast.viewer)].setAnswer = 1

\* the number of messages msg published for a connection
Published(conn, msg) == Cardinality({i \in 1..Len(conn.out) : conn.out[i] = msg})

OfferBeforeIce ==
    \A c \in 1..Len(conns) :
        /\ Published(conns[c], "offer") = 1
        /\ \A i \in 1..Len(conns[c].out) :
               conns[c].out[i] \in Candidates =>
                   \E j \in 1..(i - 1) : conns[c].out[j] = "offer"

\* a connection whose offer was followed by two candidates
OfferBeforeIceWitness ==
    \E c \in 1..Len(conns) :
        /\ Len(conns[c].out) = 3
        /\ conns[c].out[1] = "offer"
        /\ conns[c].out[2] \in Candidates

\* C28: for every ViewerConnection the ICE polling has ceased once a leave of
\* its viewer has been processed, once the bridge has been stopped, and at
\* the latest 30 s after the connection was created; a leave calls hangup
\* once, for the peer of the viewer's connection, and the viewer's entry is
\* dropped from the table.
PollingCeases ==
    /\ [](\A c \in 1..Len(conns) :
              conns[c].polling => now <= conns[c].connectedAt + ICE_POLL_CAP_MS)
    /\ [](bridge = "stopped" => \A c \in 1..Len(conns) : ~conns[c].polling)
    /\ [][bridgeLast'.op \in {"leave", "leaveUnknown"} =>
              /\ \A c \in 1..Len(conns) :
                     conns[c].id = bridgeLast'.viewer => ~conns'[c].polling
              /\ bridgeLast'.calls =
                     IF viewersGet(viewers, bridgeLast'.viewer) = 0 THEN {}
                     ELSE {Call("hangup",
                                conns[viewersGet(viewers, bridgeLast'.viewer)].peerId)}]_vars
    /\ [][bridgeLast'.op = "left" => viewersGet(viewers', bridgeLast'.viewer) = 0]_vars

\* C29: a probe that fails leaves the cached values of every collector as
\* they were before the probe, so that the next telemetry record reports the
\* values cached before: the network record, the disk and GPU caches and
\* vuosProcessRunning are unchanged by a failed probe.
FailedProbeKeepsCache ==
    [][probed'.failed =>
           /\ collectNetwork(cachedOnline', cachedLatencyMs', cachedReachable', cachedPeers')
                  = collectNetwork(cachedOnline, cachedLatencyMs, cachedReachable, cachedPeers)
           /\ cachedDisk' = cachedDisk
           /\ cachedGpu' = cachedGpu
           /\ cachedVuosRunning' = cachedVuosRunning]_vars

\* C31: a legacy control message whose action is in LEGACY_ACTION_MAP is
\* passed to handle with clientId "legacy", isLocal = false, ttlMs = 15 000,
\* the mapped type and a commandId no earlier call had, and is checked like
\* a remote command; a message whose action is missing or not in the map
\* produces no ack, no COMMAND_RECEIVED event and no handler invocation.
LegacyAsStated ==
    [][legacyLast'.n = legacyLast.n + 1 =>
           IF legacyLast'.action \in DOMAIN LEGACY_ACTION_MAP
           THEN /\ Len(calls') = Len(calls) + 1
                /\ LET c == calls'[Len(calls')]
                   IN  /\ c.clientId = "legacy"
                       /\ ~c.isLocal
                       /\ c.payload.ttlMs = LEGACY_TTL_MS
                       /\ c.payload.ts = now
                       /\ c.payload.type = LEGACY_ACTION_MAP[legacyLast'.action]
                       /\ \A i \in 1..Len(calls) :
                              calls[i].payload.commandId # c.payload.commandId
                       /\ trace' = trace \o
                              Emitted(Len(calls'), c.payload, "legacy", FALSE,
                                      Precheck(idempotencyStore, owner, expiresTs, now,
                                               c.payload, "legacy", FALSE),
                                      now)
           ELSE trace' = trace /\ calls' = calls]_vars

IsJoin == bridgeLast'.op \in {"join", "joinIgnored", "joinNoStream"}

\* the step requests no offer, cleans up no connection and creates none
NothingDone ==
    /\ bridgeLast'.calls = {}
    /\ conns' = conns
    /\ viewers' = viewers
    /\ joins' = joins

\* C33: a join from a viewerId received less than 2 s after the last join of
\* that viewerId that was not ignored is ignored: no offer is requested, no
\* connection is cleaned up and none is created; a join received while the
\* streaming status is not running creates no connection either.
JoinDebounced ==
    [][IsJoin =>
           LET v == bridgeLast'.viewer
           IN  /\ joinedAt[v] # NoNum /\ now - joinedAt[v] < VIEWER_JOIN_DEBOUNCE =>
                      bridgeLast'.op = "joinIgnored" /\ NothingDone
               /\ bridgeLast'.op = "joinNoStream" => NothingDone]_vars

\* C33, amended: a join from a viewerId received less than 2 s after the
\* last join of that viewerId that was not ignored is ignored, unless
\* stopRemoteViewing has completed in between, which is the only step that
\* clears recentJoins: no offer is requested, no connection is cleaned up
\* and none is created; a join received while the streaming status is not
\* running creates no connection either.
JoinDebouncedSinceStop ==
    /\ [][(\E v \in Viewers : recentJoins[v] # NoNum /\ recentJoins'[v] = NoNum) =>
              bridgeLast'.op = "stopped"]_vars
    /\ [][IsJoin =>
              LET v == bridgeLast'.viewer
              IN  /\ /\ joinedAt[v] # NoNum
                     /\ now - joinedAt[v] < VIEWER_JOIN_DEBOUNCE
                     /\ recentJoins[v] # NoNum
                     => bridgeLast'.op = "joinIgnored" /\ NothingDone
                  /\ bridgeLast'.op = "joinNoStream" => NothingDone]_vars

\* a join ignored 1999 ms after the join that created the connection of the
\* viewer, which is left as it was
JoinDebouncedWitness ==
    /\ bridgeLast.op = "joinIgnored"
    /\ now - joinedAt[bridgeLast.viewer] = VIEWER_JOIN_DEBOUNCE - 1
    /\ viewersGet(viewers, bridgeLast.viewer) # 0
    /\ conns[viewersGet(viewers, bridgeLast.viewer)].polling
    /\ conns[viewersGet(viewers, bridgeLast.viewer)].hangup = 0

\* C34: when a leave of viewer v has been processed, only the connection v
\* had when the leave was received is removed from the table: a connection
\* that a join of v created while the hangup call of the leave was pending
\* stays in the table; hangup is called exactly once per peer.
LeaveRemovesItsConnection ==
    /\ [][bridgeLast'.op = "left" =>
              \A l \in leaves \ leaves' :
                  viewersGet(viewers, l.id) \in {0, l.conn}]_vars
    /\ [](\A c \in 1..Len(conns) : conns[c].hangup <= 1)

\* C35: an idempotency entry answers a command only while now < expiresAt:
\* a call whose commandId has an entry that is more than 60 000 ms old is
\* processed as a new command (TTL, registry and lease checks, dispatch),
\* whether or not the sweeper has evicted the entry.
StaleEntryNotReplayed ==
    [][Len(calls') = Len(calls) + 1 =>
           LET c == calls'[Len(calls')]
               id == c.payload.commandId
           IN  id \in DOMAIN idempotencyStore /\ now > idempotencyStore[id].expiresAt =>
                   trace' = trace \o
                       Emitted(Len(calls'), c.payload, c.clientId, c.isLocal,
                               Precheck(EmptyStore, owner, expiresTs, now, c.payload,
                                        c.clientId, c.isLocal),
                               now)]_vars

\* positions before pos of the REJECTED and EXPIRED acks for this commandId
DenialsBefore(id, pos) ==
    AcksBefore(id, "REJECTED", pos) \cup AcksBefore(id, "EXPIRED", pos)

\* C36: REJECTED and EXPIRED acks are never recorded in the idempotency store:
\* every stored ack is APPLIED and the step that sends a REJECTED or EXPIRED
\* ack leaves the store as it was; a later call with the commandId, none having
\* been APPLIED, is not answered from the store: it is checked against the time
\* and the lease of its own instant and dispatched exactly when it passes.
DenialsNotCached ==
    /\ [](\A id \in DOMAIN idempotencyStore : idempotencyStore[id].ack.status = "APPLIED")
    /\ [](\A n \in CallIds :
            (DenialsBefore(CommandId(n), EntryPos(n)) # {}
                /\ AcksBefore(CommandId(n), "APPLIED", EntryPos(n)) = {}) =>
                /\ ~calls[n].cached
                /\ Dispatched(n) <=> ~Denied(n))
    /\ [][IsCall =>
             LET n == Len(calls')
             IN  (calls'[n].state = "done" /\ ~calls'[n].cached) =>
                     /\ Names(SelectSeq(trace', LAMBDA x : x.call = n /\ x.kind = "ack"))
                            \in {<<"REJECTED">>, <<"EXPIRED">>}
                     /\ idempotencyStore' = idempotencyStore]_vars

\* a command was REJECTED for the lease, its issuer then acquired the lease, and
\* a later call with the same commandId ran the handler
DenialsNotCachedWitness ==
    \E n1, n2 \in CallIds :
        /\ n1 < n2
        /\ CommandId(n1) = CommandId(n2)
        /\ calls[n1].clientId = calls[n2].clientId
        /\ LeaseDenied(n1) /\ ~Dispatched(n1)
        /\ Names(AckSeq(n1)) = <<"REJECTED">>
        /\ Dispatched(n2)
        /\ calls[n2].lease.owner = calls[n2].clientId

\* the step is the rejection of the createClient that switchBroker awaits: the
\* connection to the target broker failed and switchBroker throws
SwitchFails ==
    /\ activeClient # 0
    /\ activeClient' = activeClient
    /\ \E c \in awaiting : c \notin awaiting'

\* C37: when the connection to the target broker fails inside switchBroker,
\* the recorded active broker id still names the broker of the last
\* successfully connected client, and that client has not been ended.
FailedSwitchKeepsBroker ==
    [][SwitchFails =>
          /\ activeBrokerId' = clients'[activeClient'].broker
          /\ clients'[activeClient'].state # "ended"]_vars

\* every BROKER_SWITCHED event has its switch: a client other than the first
\* that was subscribed, or one whose connection switchBroker still awaits
SwitchesTaken ==
    {c \in 2..Len(clients) : clients[c].handler # Nil \/ c \in awaiting}

\* C38: BROKER_SWITCHED is emitted only for a switch that takes place: none
\* for a SWITCH_BROKER command that ends FAILED (unknown broker id, connection
\* failure) and none when the target is the active connected broker.
SwitchedOnlyOnSwitch ==
    Len(lifecycle) <= Cardinality(SwitchesTaken)

\* the CRITICAL-level ids among the conditions of the health payload
CriticalIds(h) == {id \in Range(h.conditions) : Def[id].level = "CRITICAL"}

\* C40: in every health payload the main loop builds, READY goes with no
\* condition, DEGRADED with conditions none of which is CRITICAL-level, CRITICAL
\* with a CRITICAL-level condition; a payload that lists conditions has one of
\* the modes STARTING, SHUTTING_DOWN, DEGRADED and CRITICAL.
HealthConsistent ==
    [][IsMainLoop =>
          LET h == health'
          IN  /\ h.mode = "READY" => h.conditions = <<>>
              /\ h.mode = "DEGRADED" => (h.conditions # <<>> /\ CriticalIds(h) = {})
              /\ h.mode = "CRITICAL" => CriticalIds(h) # {}
              /\ h.conditions # <<>> =>
                     h.mode \in {"STARTING", "SHUTTING_DOWN", "DEGRADED", "CRITICAL"}]_vars

\* the main loop built a DEGRADED payload while the predicate of a CRITICAL
\* condition held, within its debounce
HealthConsistentWitness ==
    /\ LastEvaluation = now
    /\ health.mode = "DEGRADED"
    /\ health.conditions # <<>>
    /\ \E id \in ConditionIds :
           Def[id].level = "CRITICAL" /\ conditionStates[id].rawActive

\* the subprocesses the supervisor spawned that are alive
AliveStreamers == {p \in 1..Len(subprocesses) : subprocesses[p] = "alive"}

\* C39: at most one subprocess spawned by the supervisor is alive and it is the
\* one streamerProcess refers to, also when handlers of stream commands
\* overlap; running goes with pid and startedAt set, stopped with pid,
\* startedAt and viewerUrl cleared.
OneStreamer ==
    /\ Cardinality(AliveStreamers) <= 1
    /\ \A p \in AliveStreamers : streamerProcess = p
    /\ currentState.status = "running" =>
           (currentState.pid # NoNum /\ currentState.startedAt # NoNum)
    /\ currentState.status = "stopped" =>
           /\ currentState.pid = NoNum
           /\ currentState.startedAt = NoNum
           /\ currentState.viewerUrl = Nil

====
